---- MODULE Spec2Model ----
(***************************************************************************)
(* Audio capture -> voice-activity segmentation -> transcription pipeline  *)
(* of src/backend/services/transcription_service.py (the same loops are    *)
(* in src/realtime_transcribe.py).                                         *)
(*                                                                         *)
(* Three threads share is_recording and transcription_queue:               *)
(*   capture_audio        (daemon thread)  cPc                             *)
(*   transcription_worker (daemon thread)  wPc                             *)
(*   main                 (main thread)    mPc                             *)
(* Times are integers in milliseconds.  A byte of the capture stream is    *)
(* modelled by its position in the stream, so every byte is distinct.      *)
(***************************************************************************)
EXTENDS Integers, Sequences, FiniteSets, TLC

\* ---- settings (src/backend/config/settings.py), in milliseconds
CHUNK_DURATION == 96
MIN_SPEECH_DURATION == 300
MAX_SPEECH_DURATION == 30000
SILENCE_DURATION == 600

\* ---- bounds of the model
MaxFrames == 4          \* full frames the capture stream delivers before it ends
ScenarioFrames == 13    \* the same, for the fixed-rate scenario specification
ChunkBytes == 2         \* bytes per frame (3072 in the program)
StartClock == 100000    \* time.time() when the pipeline starts; positive
MaxJitter == 1          \* most the clock advances between two time.time() calls of one iteration
EngineFrames == 2       \* full frames the capture stream delivers, for the engine specification
ProbScale == 2          \* a no_speech_prob is a multiple of 1/ProbScale
MaxSubSegments == 2     \* most sub-segments the engine returns
MaxTranscripts == 2     \* transcripts posted to the web server
ServerTranscripts == 1  \* the same, where a websocket comes and goes meanwhile
MaxClients == 2         \* websockets that connect to the web server
MaxAdds == 3            \* add_transcript calls beyond the 20 the history keeps
MaxThem == 2            \* of these calls, the ones with the second speaker

\* Python's None, and a value that is not None: an optional is a sequence of
\* at most one element
None == <<>>
Some(x) == <<x>>
Val(o) == o[1]

VARIABLES
  is_recording,         \* global flag, line 36
  transcription_queue,  \* queue.Queue(): the items, oldest first
  unfinished_tasks,     \* queue.Queue's count of put items not yet task_done
  clock,                \* last value time.time() returned
  stream_pos,           \* bytes read from process.stdout so far
  cPc,                  \* capture_audio: position
  vad,                  \* capture_audio local: the detector get_vad returned
  speech_buffer,        \* capture_audio locals
  is_speaking,
  silence_start,
  speech_start_time,
  silence_duration,
  speech_duration,
  wPc,                  \* transcription_worker: position
  audio_data,           \* transcription_worker local: the item it got
  mPc,                  \* main: position
  vadLog,               \* history: speech_detected of every full frame, in order
  timeLog,              \* history: the clock when each full frame had been read
  closeLog,             \* history: the frames (indices of vadLog) that ended an episode
  vadEnv,               \* history: the environment get_vad ran in
  lastVad,              \* history: what vad.is_speech did on the last frame
  lastStep,             \* history: what the last capture iteration did, or that the
                        \*   capture process could not be started
  putLog,               \* history: every put of the capture loop, with is_recording
                        \*   and the position of main at the time of the put
  getLog,               \* history: every item the worker got
  sinkLog,              \* history: every delivery attempt of the worker
  engineLog,            \* history: every start and every end of an engine call
  result                \* transcription_worker: what the engine call on the last segment
                        \*   gave: a text, an empty text, or an exception

VARIABLES
  active_connections,   \* server.py, manager.active_connections: the websockets, in order
  sock,                 \* the state of each websocket
  question_states,      \* server.py global dict: its keys
  transcript_history,   \* question_detector.transcript_history
  detected_questions,   \* question_detector.detected_questions
  task,                 \* the position of every request handler and background task
  bcast,                \* the locals of the broadcast a task is in
  local,                \* what a transcript carries and what detect_question found in it
  wire,                 \* history: for every transcript (0: the clear) the sends to a
                        \*   websocket and the ends of a broadcast made for it, in order
  retLog,               \* history: the normalized text of every question detect_question
                        \*   returned since the last clear
  detectedBy,           \* history: which transcript put a text into detected_questions
  oldSession,           \* history: the transcripts received before the session was cleared
  addLog                \* history: every entry add_transcript was called with since the
                        \*   history was last empty

srvVars == <<active_connections, sock, question_states, transcript_history,
             detected_questions, task, bcast, local, wire, retLog, detectedBy, oldSession, addLog>>

capVars == <<clock, stream_pos, cPc, speech_buffer, is_speaking,
             silence_start, speech_start_time, silence_duration, speech_duration,
             vadLog, timeLog, closeLog, lastVad, lastStep, putLog, vad, vadEnv>>
workVars == <<wPc, audio_data, getLog, sinkLog, result, engineLog>>
pipeVars == <<is_recording, transcription_queue, unfinished_tasks, capVars, workVars, mPc>>
vars == <<is_recording, transcription_queue, unfinished_tasks, capVars, workVars, mPc, srvVars>>

\* ------------------------------------------------------------------------
\* transcription_queue
\* ------------------------------------------------------------------------

\* line 37: queue.Queue() is queue.Queue(maxsize=0), a queue without a limit
maxsize == 0

\* PutBlocks with a fault: the queue holds one item at most
PutBlocks_Bounded(q) == Len(q) >= 1

\* Queue.put(item) waits while the queue is full; a queue with maxsize <= 0
\* is never full
PutBlocks(q) == maxsize > 0 /\ Len(q) >= maxsize

\* ------------------------------------------------------------------------
\* capture_audio
\* ------------------------------------------------------------------------

\* chunk_size_bytes = int(SAMPLE_RATE * 2 * CHUNK_DURATION), line 171
chunk_size_bytes == ChunkBytes

\* process.stdout.read(n) at stream position pos: the next n bytes
ReadBytes(pos, n) == [i \in 1..n |-> pos + i]

\* b''.join(speech_buffer), line 221
RECURSIVE JoinBytes(_)
JoinBytes(buf) == IF buf = <<>> THEN <<>> ELSE Head(buf) \o JoinBytes(Tail(buf))

\* Python truth value of a float-or-None
Truthy(o) == o # None /\ Val(o) # 0

\* SilenceDuration with a fault: the start of the silence is not subtracted
SilenceDuration_Absolute(now, start) == now

\* line 211
SilenceDuration(now, start) == now - Val(start)

\* SpeechDuration with a fault: the onset is not subtracted
SpeechDuration_Absolute(now, start) == now

\* line 212
SpeechDuration(now, start) == IF Truthy(start) THEN now - Val(start) ELSE 0

\* CutoffFires with a fault: and for or
CutoffFires_And(sil, sp) == sil >= SILENCE_DURATION /\ sp >= MAX_SPEECH_DURATION

\* line 219
CutoffFires(sil, sp) == sil >= SILENCE_DURATION \/ sp >= MAX_SPEECH_DURATION

\* line 220
ShouldEmit(buf, sp) == Len(buf) > 0 /\ sp >= MIN_SPEECH_DURATION

\* BufferAppend with a fault: the chunk goes to the front
BufferAppend_Prepend(buf, chunk) == <<chunk>> \o buf

\* lines 201 and 206: speech_buffer.append(audio_chunk)
BufferAppend(buf, chunk) == Append(buf, chunk)

\* SilenceStartOnSpeech with a fault: line 202 left out
SilenceStartOnSpeech_Keep(old) == old

\* line 202: silence_start after a speech frame
SilenceStartOnSpeech(old) == None

\* SilenceStartOnSilence with a fault: the timer restarts on every silence frame
SilenceStartOnSilence_Restart(old, now) == Some(now)

\* lines 208-209: silence_start after a silence frame
SilenceStartOnSilence(old, now) == IF old = None THEN Some(now) ELSE old

\* the locals of capture_audio that the segmenter reads and writes
Locals == [speech_buffer |-> speech_buffer, is_speaking |-> is_speaking,
           silence_start |-> silence_start, speech_start_time |-> speech_start_time,
           silence_duration |-> silence_duration, speech_duration |-> speech_duration]

\* ResetOnCutoff with a fault: line 230 left out
ResetOnCutoff_KeepsOnset(st) == [st EXCEPT !.speech_buffer = <<>>, !.is_speaking = FALSE,
                                           !.silence_start = None]

\* ResetOnCutoff with a fault: line 227 left out
ResetOnCutoff_KeepsBuffer(st) == [st EXCEPT !.is_speaking = FALSE,
                                            !.silence_start = None, !.speech_start_time = None]

\* lines 227-230: the locals after a cutoff
ResetOnCutoff(st) == [st EXCEPT !.speech_buffer = <<>>, !.is_speaking = FALSE,
                                !.silence_start = None, !.speech_start_time = None]

\* OnSpeechFrame with a fault: the maximum duration also cuts on a speech frame
OnSpeechFrame_ForceCut(st, chunk, t0) ==
  IF st.is_speaking /\ SpeechDuration(t0, st.speech_start_time) >= MAX_SPEECH_DURATION
  THEN [st   |-> ResetOnCutoff(st),
        put  |-> Some(<<JoinBytes(BufferAppend(st.speech_buffer, chunk)),
                        SpeechDuration(t0, st.speech_start_time)>>),
        step |-> "emit",
        now  |-> t0]
  ELSE [st   |-> [st EXCEPT !.is_speaking = TRUE,
                            !.speech_start_time = IF st.is_speaking THEN @ ELSE Some(t0),
                            !.speech_buffer = BufferAppend(@, chunk),
                            !.silence_start = SilenceStartOnSpeech(@)],
        put  |-> None,
        step |-> "speech",
        now  |-> t0]

\* lines 194-202: a frame with speech_detected, read at time t0.  The result:
\* the locals, the item put on the queue (None: no put), what happened, and
\* the clock after the iteration.
OnSpeechFrame(st, chunk, t0) ==
  [st   |-> [st EXCEPT !.is_speaking = TRUE,
                       !.speech_start_time = IF st.is_speaking THEN @ ELSE Some(t0),
                       !.speech_buffer = BufferAppend(@, chunk),
                       !.silence_start = SilenceStartOnSpeech(@)],
   put  |-> None,
   step |-> "speech",
   now  |-> t0]

\* OnSilenceFrame with a fault: the frame is buffered whether or not an
\* episode is in progress
OnSilenceFrame_BuffersIdle(st, chunk, t0, j1, j2) ==
  IF ~st.is_speaking
  THEN [st   |-> [st EXCEPT !.speech_buffer = BufferAppend(@, chunk)],
        put  |-> None, step |-> "idle", now |-> t0]
  ELSE LET buf == BufferAppend(st.speech_buffer, chunk)
           ss  == SilenceStartOnSilence(st.silence_start, t0)
           sil == SilenceDuration(t0 + j1, ss)
           sp  == SpeechDuration(t0 + j1 + j2, st.speech_start_time)
           upd == [st EXCEPT !.speech_buffer = buf, !.silence_start = ss,
                             !.silence_duration = Some(sil), !.speech_duration = Some(sp)]
       IN  IF CutoffFires(sil, sp)
           THEN [st   |-> ResetOnCutoff(upd),
                 put  |-> IF ShouldEmit(buf, sp) THEN Some(<<JoinBytes(buf), sp>>) ELSE None,
                 step |-> IF ShouldEmit(buf, sp) THEN "emit" ELSE "discard",
                 now  |-> t0 + j1 + j2]
           ELSE [st |-> upd, put |-> None, step |-> "pause", now |-> t0 + j1 + j2]

\* OnSilenceFrame with a fault: line 206 left out, silence frames are not
\* buffered
OnSilenceFrame_DropsSilence(st, chunk, t0, j1, j2) ==
  IF ~st.is_speaking
  THEN [st |-> st, put |-> None, step |-> "idle", now |-> t0]
  ELSE LET buf == st.speech_buffer
           ss  == SilenceStartOnSilence(st.silence_start, t0)
           sil == SilenceDuration(t0 + j1, ss)
           sp  == SpeechDuration(t0 + j1 + j2, st.speech_start_time)
           upd == [st EXCEPT !.speech_buffer = buf, !.silence_start = ss,
                             !.silence_duration = Some(sil), !.speech_duration = Some(sp)]
       IN  IF CutoffFires(sil, sp)
           THEN [st   |-> ResetOnCutoff(upd),
                 put  |-> IF ShouldEmit(buf, sp) THEN Some(<<JoinBytes(buf), sp>>) ELSE None,
                 step |-> IF ShouldEmit(buf, sp) THEN "emit" ELSE "discard",
                 now  |-> t0 + j1 + j2]
           ELSE [st |-> upd, put |-> None, step |-> "pause", now |-> t0 + j1 + j2]

\* OnSilenceFrame with a fault: the frame that starts the silence timer does
\* not evaluate the cutoff
OnSilenceFrame_DefersCutoff(st, chunk, t0, j1, j2) ==
  IF ~st.is_speaking
  THEN [st |-> st, put |-> None, step |-> "idle", now |-> t0]
  ELSE LET buf == BufferAppend(st.speech_buffer, chunk)
           ss  == SilenceStartOnSilence(st.silence_start, t0)
           sil == SilenceDuration(t0 + j1, ss)
           sp  == SpeechDuration(t0 + j1 + j2, st.speech_start_time)
           upd == [st EXCEPT !.speech_buffer = buf, !.silence_start = ss,
                             !.silence_duration = Some(sil), !.speech_duration = Some(sp)]
       IN  IF st.silence_start # None /\ CutoffFires(sil, sp)
           THEN [st   |-> ResetOnCutoff(upd),
                 put  |-> IF ShouldEmit(buf, sp) THEN Some(<<JoinBytes(buf), sp>>) ELSE None,
                 step |-> IF ShouldEmit(buf, sp) THEN "emit" ELSE "discard",
                 now  |-> t0 + j1 + j2]
           ELSE [st |-> upd, put |-> None, step |-> "pause", now |-> t0 + j1 + j2]

\* lines 204-230: a frame without speech_detected, read at time t0; the
\* clock advances j1 between the time.time() calls of lines 209 and 211 and
\* j2 between those of lines 211 and 212
OnSilenceFrame(st, chunk, t0, j1, j2) ==
  IF ~st.is_speaking
  THEN [st |-> st, put |-> None, step |-> "idle", now |-> t0]
  ELSE LET buf == BufferAppend(st.speech_buffer, chunk)
           ss  == SilenceStartOnSilence(st.silence_start, t0)
           sil == SilenceDuration(t0 + j1, ss)
           sp  == SpeechDuration(t0 + j1 + j2, st.speech_start_time)
           upd == [st EXCEPT !.speech_buffer = buf, !.silence_start = ss,
                             !.silence_duration = Some(sil), !.speech_duration = Some(sp)]
       IN  IF CutoffFires(sil, sp)
           THEN [st   |-> ResetOnCutoff(upd),
                 put  |-> IF ShouldEmit(buf, sp) THEN Some(<<JoinBytes(buf), sp>>) ELSE None,
                 step |-> IF ShouldEmit(buf, sp) THEN "emit" ELSE "discard",
                 now  |-> t0 + j1 + j2]
           ELSE [st |-> upd, put |-> None, step |-> "pause", now |-> t0 + j1 + j2]

\* ---- utils/vad.py.  An environment is what the machine offers the
\* detector: torch imports and the Silero model loads; torch imports and
\* building the Silero detector raises; torch does not import.
VadEnvs == {"loaded", "load_raised", "no_torch"}

\* vad.py lines 11-16
SILERO_AVAILABLE(env) == env # "no_torch"

\* vad.py lines 21-34: SileroVAD() gives the detector, or raises
SileroVAD(env) ==
  IF ~SILERO_AVAILABLE(env) THEN "raise"
  ELSE IF env = "load_raised" THEN "raise"
  ELSE "SileroVAD"

\* vad.py lines 50-52: EnergyVAD() only stores its threshold
EnergyVAD == "EnergyVAD"

\* get_vad with a fault: no except clause
get_vad_NoFallback(env) == IF SILERO_AVAILABLE(env) THEN SileroVAD(env) ELSE EnergyVAD

\* vad.py lines 67-76: the detector get_vad returns, or "raise" when an
\* exception leaves it
get_vad(env) ==
  LET made == IF SILERO_AVAILABLE(env) THEN SileroVAD(env) ELSE EnergyVAD
  IN  IF made = "raise" THEN EnergyVAD ELSE made

\* CaptureStart with a fault: the loop is entered though Popen raised
CaptureStart_FailureRuns(envs) ==
  /\ cPc = "start"
  /\ \E env \in envs :
       /\ vadEnv' = env
       /\ IF get_vad(env) = "raise"
          THEN /\ vad' = None
               /\ cPc' = "done"
               /\ UNCHANGED <<speech_buffer, is_speaking, silence_start, speech_start_time,
                              lastStep>>
          ELSE /\ vad' = Some(get_vad(env))
               /\ \/ /\ cPc' = "loop"
                     /\ speech_buffer' = <<>>
                     /\ is_speaking' = FALSE
                     /\ silence_start' = None
                     /\ speech_start_time' = None
                     /\ UNCHANGED lastStep
                  \/ \* FileNotFoundError, line 235
                     /\ cPc' = "loop"
                     /\ lastStep' = "start_failed"
                     /\ UNCHANGED <<speech_buffer, is_speaking, silence_start, speech_start_time>>
  /\ UNCHANGED <<is_recording, transcription_queue, unfinished_tasks, clock, stream_pos,
                 silence_duration, speech_duration,
                 vadLog, timeLog, closeLog, lastVad, putLog, workVars, mPc>>
  /\ UNCHANGED srvVars

\* lines 145-179: get_vad, which is outside the try of line 162, then
\* subprocess.Popen of the capture binary, then the locals; lines 235-238
\* when Popen raises
CaptureStart(envs) ==
  /\ cPc = "start"
  /\ \E env \in envs :
       /\ vadEnv' = env
       /\ IF get_vad(env) = "raise"
          THEN /\ vad' = None
               /\ cPc' = "done"
               /\ UNCHANGED <<speech_buffer, is_speaking, silence_start, speech_start_time,
                              lastStep>>
          ELSE /\ vad' = Some(get_vad(env))
               /\ \/ /\ cPc' = "loop"
                     /\ speech_buffer' = <<>>
                     /\ is_speaking' = FALSE
                     /\ silence_start' = None
                     /\ speech_start_time' = None
                     /\ UNCHANGED lastStep
                  \/ \* FileNotFoundError, line 235
                     /\ cPc' = "done"
                     /\ lastStep' = "start_failed"
                     /\ UNCHANGED <<speech_buffer, is_speaking, silence_start, speech_start_time>>
  /\ UNCHANGED <<is_recording, transcription_queue, unfinished_tasks, clock, stream_pos,
                 silence_duration, speech_duration,
                 vadLog, timeLog, closeLog, lastVad, putLog, workVars, mPc>>
  /\ UNCHANGED srvVars

\* line 181: while is_recording
CaptureLoop ==
  /\ cPc = "loop"
  /\ cPc' = IF is_recording THEN "read" ELSE "terminate"
  /\ UNCHANGED <<is_recording, transcription_queue, unfinished_tasks, clock, stream_pos,
                 speech_buffer, is_speaking, silence_start,
                 speech_start_time, silence_duration, speech_duration,
                 vadLog, timeLog, closeLog, lastVad, lastStep, putLog, vad, vadEnv, workVars, mPc>>
  /\ UNCHANGED srvVars

\* ShortRead with a fault: only an empty read ends the loop
ShortRead_Empty(chunk) == Len(chunk) = 0

\* line 184: len(audio_chunk) < chunk_size_bytes
ShortRead(chunk) == Len(chunk) < chunk_size_bytes

\* lines 182-185: process.stdout.read(chunk_size_bytes) returns n bytes, at
\* most what was asked; a read that returns fewer bytes than asked ends the
\* loop
CaptureShortRead ==
  /\ cPc = "read"
  /\ \E n \in 0..chunk_size_bytes :
       /\ ShortRead(ReadBytes(stream_pos, n))
       /\ stream_pos' = stream_pos + n
  /\ cPc' = "terminate"
  /\ lastStep' = "short"
  /\ UNCHANGED <<is_recording, transcription_queue, unfinished_tasks, clock,
                 speech_buffer, is_speaking, silence_start,
                 speech_start_time, silence_duration, speech_duration,
                 vadLog, timeLog, closeLog, lastVad, putLog, vad, vadEnv, workVars, mPc>>
  /\ UNCHANGED srvVars

\* SpeechDetected with a fault: a frame the detector failed on counts as speech
SpeechDetected_ErrorIsSpeech(v) == v # "silence"

\* lines 187-192: speech_detected is what vad.is_speech answered, and False
\* when it raised
SpeechDetected(v) == v = "speech"

\* lines 182-230: one iteration on a frame that passes line 184.  The read
\* returns n bytes and takes d, the VAD answers v, and the clock advances j1
\* and j2 inside the iteration; an exception of vad.is_speech gives
\* speech_detected = False (lines 189-192).
CaptureFrameOn(n, d, v, j1, j2, maxFrames) ==
  /\ cPc = "read"
  /\ Len(vadLog) < maxFrames
  /\   LET chunk == ReadBytes(stream_pos, n)
           speech_detected == SpeechDetected(v)
           t0 == clock + d
           r == IF speech_detected
                THEN OnSpeechFrame(Locals, chunk, t0)
                ELSE OnSilenceFrame(Locals, chunk, t0, j1, j2)
       IN
       /\ ~ShortRead(chunk)
       /\ stream_pos' = stream_pos + Len(chunk)
       /\ clock' = r.now
       /\ speech_buffer' = r.st.speech_buffer
       /\ is_speaking' = r.st.is_speaking
       /\ silence_start' = r.st.silence_start
       /\ speech_start_time' = r.st.speech_start_time
       /\ silence_duration' = r.st.silence_duration
       /\ speech_duration' = r.st.speech_duration
       /\ IF r.put # None
          THEN /\ ~PutBlocks(transcription_queue)
               /\ transcription_queue' = Append(transcription_queue, Val(r.put))
               /\ unfinished_tasks' = unfinished_tasks + 1
               /\ putLog' = Append(putLog,
                     [item |-> Val(r.put), onset |-> speech_start_time,
                      cutoff |-> r.now, frame |-> Len(vadLog) + 1,
                      recording |-> is_recording, main |-> mPc])
          ELSE UNCHANGED <<transcription_queue, unfinished_tasks, putLog>>
       /\ vadLog' = Append(vadLog, speech_detected)
       /\ timeLog' = Append(timeLog, t0)
       /\ closeLog' = IF is_speaking /\ ~r.st.is_speaking
                      THEN Append(closeLog, Len(vadLog) + 1) ELSE closeLog
       /\ lastVad' = v
       /\ lastStep' = r.step
  /\ cPc' = "loop"
  /\ UNCHANGED <<is_recording, vad, vadEnv, workVars, mPc>>
  /\ UNCHANGED srvVars

\* one iteration, on any read and any answer of the VAD
CaptureFrame(steps, jitter, vads, maxFrames) ==
  \E n \in 0..chunk_size_bytes, d \in steps, v \in vads, j1 \in jitter, j2 \in jitter :
    CaptureFrameOn(n, d, v, j1, j2, maxFrames)

\* CaptureTerminate with a fault: the frames still buffered are put on the
\* queue when the loop has ended
CaptureTerminate_Flush ==
  /\ cPc = "terminate"
  /\ cPc' = "done"
  /\ IF speech_buffer # <<>>
     THEN /\ transcription_queue' = Append(transcription_queue, <<JoinBytes(speech_buffer), 0>>)
          /\ unfinished_tasks' = unfinished_tasks + 1
     ELSE UNCHANGED <<transcription_queue, unfinished_tasks>>
  /\ UNCHANGED <<is_recording, clock, stream_pos,
                 speech_buffer, is_speaking, silence_start,
                 speech_start_time, silence_duration, speech_duration,
                 vadLog, timeLog, closeLog, lastVad, lastStep, putLog, vad, vadEnv, workVars, mPc>>
  /\ UNCHANGED srvVars

\* lines 232-233: process.terminate(); process.wait()
CaptureTerminate ==
  /\ cPc = "terminate"
  /\ cPc' = "done"
  /\ UNCHANGED <<is_recording, transcription_queue, unfinished_tasks, clock, stream_pos,
                 speech_buffer, is_speaking, silence_start,
                 speech_start_time, silence_duration, speech_duration,
                 vadLog, timeLog, closeLog, lastVad, lastStep, putLog, vad, vadEnv, workVars, mPc>>
  /\ UNCHANGED srvVars

\* ------------------------------------------------------------------------
\* transcription_worker
\* ------------------------------------------------------------------------

\* line 58, left operand: while is_recording or ...
WorkerLoop ==
  /\ wPc = "loop"
  /\ wPc' = IF is_recording THEN "get" ELSE "loop_empty"
  /\ UNCHANGED <<is_recording, transcription_queue, unfinished_tasks, capVars,
                 audio_data, getLog, sinkLog, result, engineLog, mPc>>
  /\ UNCHANGED srvVars

\* WorkerLoopEmpty with a fault: the loop condition is is_recording alone
WorkerLoopEmpty_NoDrain ==
  /\ wPc = "loop_empty"
  /\ wPc' = "done"
  /\ UNCHANGED <<is_recording, transcription_queue, unfinished_tasks, capVars,
                 audio_data, getLog, sinkLog, result, engineLog, mPc>>
  /\ UNCHANGED srvVars

\* line 58, right operand: ... or not transcription_queue.empty()
WorkerLoopEmpty ==
  /\ wPc = "loop_empty"
  /\ wPc' = IF transcription_queue # <<>> THEN "get" ELSE "done"
  /\ UNCHANGED <<is_recording, transcription_queue, unfinished_tasks, capVars,
                 audio_data, getLog, sinkLog, result, engineLog, mPc>>
  /\ UNCHANGED srvVars

\* WorkerGet with a fault: get returns the newest item
WorkerGet_Lifo ==
  /\ wPc = "get"
  /\ transcription_queue # <<>>
  /\ LET last == transcription_queue[Len(transcription_queue)] IN
       /\ audio_data' = last
       /\ transcription_queue' = SubSeq(transcription_queue, 1, Len(transcription_queue) - 1)
       /\ getLog' = Append(getLog, last)
       /\ wPc' = IF last = None THEN "done" ELSE "stage"
  /\ UNCHANGED <<is_recording, unfinished_tasks, capVars, sinkLog, result, engineLog, mPc>>
  /\ UNCHANGED srvVars

\* WorkerGet with a fault: the item is read and left in the queue
WorkerGet_Peek ==
  /\ wPc = "get"
  /\ transcription_queue # <<>>
  /\ audio_data' = Head(transcription_queue)
  /\ getLog' = Append(getLog, Head(transcription_queue))
  /\ wPc' = IF Head(transcription_queue) = None THEN "done" ELSE "stage"
  /\ UNCHANGED <<is_recording, transcription_queue, unfinished_tasks, capVars,
                 sinkLog, result, engineLog, mPc>>
  /\ UNCHANGED srvVars

\* lines 60-65: get returns an item; None ends the loop
WorkerGet ==
  /\ wPc = "get"
  /\ transcription_queue # <<>>
  /\ audio_data' = Head(transcription_queue)
  /\ transcription_queue' = Tail(transcription_queue)
  /\ getLog' = Append(getLog, Head(transcription_queue))
  /\ wPc' = IF Head(transcription_queue) = None THEN "done" ELSE "stage"
  /\ UNCHANGED <<is_recording, unfinished_tasks, capVars, sinkLog, result, engineLog, mPc>>
  /\ UNCHANGED srvVars

\* WorkerGetTimeout with a fault: get has no timeout and waits for an item
WorkerGetTimeout_Blocks ==
  /\ wPc = "get"
  /\ transcription_queue = <<>>
  /\ FALSE
  /\ UNCHANGED vars

\* lines 60, 134-135: get(timeout=0.5) raises queue.Empty; continue
WorkerGetTimeout ==
  /\ wPc = "get"
  /\ transcription_queue = <<>>
  /\ wPc' = "loop"
  /\ UNCHANGED <<is_recording, transcription_queue, unfinished_tasks, capVars,
                 audio_data, getLog, sinkLog, result, engineLog, mPc>>
  /\ UNCHANGED srvVars

\* WorkerStage with a fault: the engine call is started in the background
\* and the worker does not wait for it
WorkerStage_Background ==
  /\ wPc = "stage"
  /\ \/ /\ wPc' = "task_done"
        /\ engineLog' = Append(engineLog, [ev |-> "call", segment |-> audio_data])
     \/ /\ wPc' = "loop"
        /\ UNCHANGED engineLog
  /\ UNCHANGED <<is_recording, transcription_queue, unfinished_tasks, capVars,
                 audio_data, getLog, sinkLog, result, mPc>>
  /\ UNCHANGED srvVars

\* lines 70-89: the temporary file and the ffmpeg conversion.  They are
\* outside the inner try: when one raises, line 136 catches it and the loop
\* goes on without task_done.  When they succeed the worker enters the
\* engine call of line 97.
WorkerStage ==
  /\ wPc = "stage"
  /\ \/ /\ wPc' = "transcribe"
        /\ engineLog' = Append(engineLog, [ev |-> "call", segment |-> audio_data])
     \/ /\ wPc' = "loop"
        /\ UNCHANGED engineLog
  /\ UNCHANGED <<is_recording, transcription_queue, unfinished_tasks, capVars,
                 audio_data, getLog, sinkLog, result, mPc>>
  /\ UNCHANGED srvVars

\* ---- what mlx_whisper.transcribe gives (lines 97-101): it raises, or it
\* returns a text (a sequence of characters) and, under the key "segments"
\* (None: no such key), the no_speech_prob of each sub-segment, in units of
\* 1/ProbScale
EngineRaise == [raised |-> TRUE, text |-> <<>>, segments |-> None]
EngineResult(t, sg) == [raised |-> FALSE, text |-> t, segments |-> sg]

\* the characters str.strip() removes
Whitespace == {" "}
RECURSIVE LStrip(_)
LStrip(s) == IF s # <<>> /\ Head(s) \in Whitespace THEN LStrip(Tail(s)) ELSE s
RECURSIVE RStrip(_)
RStrip(s) == IF s # <<>> /\ s[Len(s)] \in Whitespace
             THEN RStrip(SubSeq(s, 1, Len(s) - 1)) ELSE s

\* Strip with a fault: the text is not trimmed
Strip_None(s) == s

\* line 103: result["text"].strip()
Strip(s) == RStrip(LStrip(s))

\* line 105: if text
HasText(text) == text # <<>>

RECURSIVE SumSeq(_)
SumSeq(q) == IF q = <<>> THEN 0 ELSE Head(q) + SumSeq(Tail(q))

\* Confidence with a fault: the mean is not subtracted from 1
Confidence_Mean(res) ==
  IF res.segments # None /\ Val(res.segments) # <<>>
  THEN Some(<<SumSeq(Val(res.segments)), Len(Val(res.segments)) * ProbScale>>)
  ELSE None

\* lines 110-114: None, or 1.0 - sum(confidences) / len(confidences) as the
\* fraction <<numerator, denominator>>
Confidence(res) ==
  IF res.segments # None /\ Val(res.segments) # <<>>
  THEN Some(<<Len(Val(res.segments)) * ProbScale - SumSeq(Val(res.segments)),
              Len(Val(res.segments)) * ProbScale>>)
  ELSE None

\* lines 106-107: datetime.now().strftime('%H:%M:%S'), as <<hour, minute, second>>
TimeStr(t) == <<(t \div 3600000) % 24, (t \div 60000) % 60, (t \div 1000) % 60>>

\* lines 43-47: the JSON body of the post
Payload(text, timestamp, confidence) ==
  [text |-> text, timestamp |-> timestamp, confidence |-> confidence]

\* send_to_web_server with a fault: a failed post is tried again
send_to_web_server_Retry(text, timestamp, confidence, ok) ==
  IF ok
  THEN <<[data |-> Payload(text, timestamp, confidence), posted |-> TRUE]>>
  ELSE <<[data |-> Payload(text, timestamp, confidence), posted |-> FALSE],
         [data |-> Payload(text, timestamp, confidence), posted |-> FALSE]>>

\* lines 40-51: the posts send_to_web_server makes; ok is whether
\* requests.post succeeded, and its exception is caught at line 49
send_to_web_server(text, timestamp, confidence, ok) ==
  <<[data |-> Payload(text, timestamp, confidence), posted |-> ok]>>

\* WorkerTranscribe with a fault: an exception of the engine call is not
\* caught and ends the worker
WorkerTranscribe_RaiseHalts(outputs) ==
  /\ wPc = "transcribe"
  /\ \E res \in outputs, ok \in BOOLEAN :
       LET text == Strip(res.text)
           delivered == ~res.raised /\ HasText(text)
           posts == send_to_web_server(text, TimeStr(clock), Confidence(res), ok)
       IN
       /\ result' = IF res.raised THEN "raise" ELSE IF delivered THEN "text" ELSE "empty"
       /\ sinkLog' = IF delivered
                     THEN sinkLog \o [k \in 1..Len(posts) |->
                            [segment |-> audio_data, posted |-> posts[k].posted,
                             data |-> posts[k].data, raw |-> res]]
                     ELSE sinkLog
       /\ wPc' = IF res.raised THEN "done" ELSE "task_done"
  /\ engineLog' = Append(engineLog, [ev |-> "return", segment |-> audio_data])
  /\ UNCHANGED <<is_recording, transcription_queue, unfinished_tasks, capVars,
                 audio_data, getLog, mPc>>
  /\ UNCHANGED srvVars

\* lines 91-130: the engine call, the text, the confidence, the delivery;
\* every exception is caught at line 126, and send_to_web_server catches its
\* own
WorkerTranscribe(outputs) ==
  /\ wPc = "transcribe"
  /\ \E res \in outputs, ok \in BOOLEAN :
       LET text == Strip(res.text)
           delivered == ~res.raised /\ HasText(text)
           posts == send_to_web_server(text, TimeStr(clock), Confidence(res), ok)
       IN
       /\ result' = IF res.raised THEN "raise" ELSE IF delivered THEN "text" ELSE "empty"
       /\ sinkLog' = IF delivered
                     THEN sinkLog \o [k \in 1..Len(posts) |->
                            [segment |-> audio_data, posted |-> posts[k].posted,
                             data |-> posts[k].data, raw |-> res]]
                     ELSE sinkLog
       /\ wPc' = "task_done"
  /\ engineLog' = Append(engineLog, [ev |-> "return", segment |-> audio_data])
  /\ UNCHANGED <<is_recording, transcription_queue, unfinished_tasks, capVars,
                 audio_data, getLog, mPc>>
  /\ UNCHANGED srvVars

\* line 132
WorkerTaskDone ==
  /\ wPc = "task_done"
  /\ unfinished_tasks' = unfinished_tasks - 1
  /\ wPc' = "loop"
  /\ UNCHANGED <<is_recording, transcription_queue, capVars,
                 audio_data, getLog, sinkLog, result, engineLog, mPc>>
  /\ UNCHANGED srvVars

\* ------------------------------------------------------------------------
\* main
\* ------------------------------------------------------------------------

\* main returns: the interpreter exits and the daemon threads stop where
\* they are (lines 257, 261: daemon=True)
Killed(pc) == IF pc = "done" THEN "done" ELSE "killed"

\* line 265 returns: the capture thread has ended; main falls out of the try
MainCaptureJoined ==
  /\ mPc = "join_capture"
  /\ cPc = "done"
  /\ mPc' = "exit"
  /\ wPc' = Killed(wPc)
  /\ cPc' = Killed(cPc)
  /\ UNCHANGED <<is_recording, transcription_queue, unfinished_tasks, clock, stream_pos,
                 speech_buffer, is_speaking, silence_start,
                 speech_start_time, silence_duration, speech_duration,
                 vadLog, timeLog, closeLog, lastVad, lastStep, putLog, vad, vadEnv,
                 audio_data, getLog, sinkLog, result, engineLog>>
  /\ UNCHANGED srvVars

\* lines 266-268: Ctrl+C while main waits in capture_thread.join()
KeyboardInterrupt ==
  /\ mPc = "join_capture"
  /\ is_recording' = FALSE
  /\ mPc' = "queue_join"
  /\ UNCHANGED <<transcription_queue, unfinished_tasks, capVars, workVars>>
  /\ UNCHANGED srvVars

\* MainQueueJoin with a fault: main does not wait for the queue
MainQueueJoin_NoWait ==
  /\ mPc = "queue_join"
  /\ mPc' = "put_sentinel"
  /\ UNCHANGED <<is_recording, transcription_queue, unfinished_tasks, capVars, workVars>>
  /\ UNCHANGED srvVars

\* line 271: transcription_queue.join() returns when nothing is unfinished
MainQueueJoin ==
  /\ mPc = "queue_join"
  /\ unfinished_tasks = 0
  /\ mPc' = "put_sentinel"
  /\ UNCHANGED <<is_recording, transcription_queue, unfinished_tasks, capVars, workVars>>
  /\ UNCHANGED srvVars

\* line 273: transcription_queue.put(None)
MainPutSentinel ==
  /\ mPc = "put_sentinel"
  /\ ~PutBlocks(transcription_queue)
  /\ transcription_queue' = Append(transcription_queue, None)
  /\ unfinished_tasks' = unfinished_tasks + 1
  /\ mPc' = "thread_join"
  /\ UNCHANGED <<is_recording, capVars, workVars>>
  /\ UNCHANGED srvVars

\* lines 274-276: transcription_thread.join(timeout=5) returns, because the
\* worker has ended or because 5 s have passed; then main returns
MainThreadJoin ==
  /\ mPc = "thread_join"
  /\ mPc' = "exit"
  /\ wPc' = Killed(wPc)
  /\ cPc' = Killed(cPc)
  /\ UNCHANGED <<is_recording, transcription_queue, unfinished_tasks, clock, stream_pos,
                 speech_buffer, is_speaking, silence_start,
                 speech_start_time, silence_duration, speech_duration,
                 vadLog, timeLog, closeLog, lastVad, lastStep, putLog, vad, vadEnv,
                 audio_data, getLog, sinkLog, result, engineLog>>
  /\ UNCHANGED srvVars

\* ------------------------------------------------------------------------
\* web server (src/backend/api/server.py) and question detector
\* (src/backend/services/question_detector.py)
\*
\* Request handlers and background tasks are coroutines of one event loop:
\* they interleave only where they await.  detect_question runs in a worker
\* thread (asyncio.to_thread) and interleaves with everything.
\* ------------------------------------------------------------------------

Clients == 1..MaxClients
Transcripts == 1..MaxTranscripts

\* the elements of a list
Range(f) == {f[k] : k \in 1..Len(f)}

\* the handler of POST /transcript for transcript t, the background task it
\* creates, and the handler of POST /clear
Recv(t) == <<"recv", t>>
Detect(t) == <<"detect", t>>
Clear == <<"clear", 0>>
TaskIds == {Recv(t) : t \in Transcripts} \cup {Detect(t) : t \in Transcripts} \cup {Clear}

\* question_detector.py line 59: the literal 20
HistoryLimit == 20

\* add_transcript with a fault: the oldest entries are kept
add_transcript_KeepsOldest(history, entry) ==
  LET h == Append(history, entry)
  IN  IF Len(h) > HistoryLimit THEN SubSeq(h, 1, HistoryLimit) ELSE h

\* question_detector.py lines 50-60: append, then keep the last 20
add_transcript(history, entry) ==
  LET h == Append(history, entry)
  IN  IF Len(h) > HistoryLimit THEN SubSeq(h, Len(h) - HistoryLimit + 1, Len(h)) ELSE h

\* str.lower() on the letters the questions of the model are written in
LowerChar(c) ==
  CASE c = "O" -> "o" [] c = "T" -> "t" [] c = "L" -> "l" [] c = "P" -> "p"
    [] c = "Q" -> "q" [] OTHER -> c
Lower(s) == [i \in 1..Len(s) |-> LowerChar(s[i])]

\* str.replace(ch, "") for the characters of set chars
RemoveChars(s, chars) == LET Keep(c) == c \notin chars IN SelectSeq(s, Keep)

\* str.replace(pat, new): every occurrence, left to right
RECURSIVE Replace(_, _, _)
Replace(s, pat, new) ==
  IF Len(s) < Len(pat) THEN s
  ELSE IF SubSeq(s, 1, Len(pat)) = pat
       THEN new \o Replace(SubSeq(s, Len(pat) + 1, Len(s)), pat, new)
       ELSE <<s[1]>> \o Replace(Tail(s), pat, new)

\* " ".join(s.split()): runs of whitespace become one blank, none at the ends
RECURSIVE Collapse(_)
Collapse(s) ==
  IF Len(s) < 2 THEN s
  ELSE IF s[1] \in Whitespace /\ s[2] \in Whitespace THEN Collapse(Tail(s))
       ELSE <<s[1]>> \o Collapse(Tail(s))
JoinSplit(s) == Collapse(Strip(s))

\* question_detector.py lines 62-68
normalize_question(question) ==
  LET n1 == Strip(Lower(question))
      n2 == RemoveChars(n1, {"?", ".", ","})
      n3 == Replace(n2, <<"o", "t", "l", "p">>, <<"o", "l", "t", "p">>)
      n4 == JoinSplit(n3)
  IN  Strip(n4)

\* question_detector.py lines 32-40, two of the triggers
OBJECTION_TRIGGERS == {"too expensive", "not the right time"}

\* question_detector.py lines 398-404; a text is a sequence of phrases
detect_objection(text) == \E k \in 1..Len(text) : text[k] \in OBJECTION_TRIGGERS

\* the transcripts posted: who spoke, and what
TranscriptInputs ==
  { [speaker |-> "them", text |-> <<"hello">>],
    [speaker |-> "them", text |-> <<"that is", "too expensive">>],
    [speaker |-> "me",   text |-> <<"not the right time">>] }

\* what the detection model finds in a transcript: nothing (also when the
\* call raises, lines 200-202, or the answer says is_question false), or a
\* question text
QuestionTexts == { <<"O", "T", "L", "P", "?">>, <<"o", "l", "t", "p">>, <<"q">> }
DetectAnswers == {None} \cup {Some(q) : q \in QuestionTexts}

\* server.py line 134: question_id is made of the timestamp and of the
\* question text
QuestionId(t, q) == <<t, q>>

\* ---- ConnectionManager.broadcast, lines 49-62

NoBroadcast == [idx |-> 0, failed |-> <<>>, present |-> {}, got |-> <<>>]

\* line 51-52: disconnected = [], and the iterator over the list; present
\* is history: the websockets registered since the broadcast began
BroadcastBegin(conns) == [idx |-> 0, failed |-> <<>>, present |-> Range(conns), got |-> <<>>]

\* the positions at which a task is inside a broadcast, and the message
BroadcastPcs == {"bcast", "qbcast", "obcast", "cbcast"}
Message(id) ==
  [type |-> CASE task[id] = "bcast" -> "transcript"
              [] task[id] = "qbcast" -> "question"
              [] task[id] = "obcast" -> "objection"
              [] OTHER -> "session_cleared",
   t |-> id[2]]

\* list.remove for every element of seq gone that is in the list
RECURSIVE RemoveAll(_, _)
RemoveAll(conns, gone) ==
  IF gone = <<>> THEN conns
  ELSE LET Keep(c) == c # Head(gone)
       IN  RemoveAll(SelectSeq(conns, Keep), Tail(gone))

\* history: a websocket that leaves the list is no longer present in any
\* broadcast under way
Track(b, conns) == [id \in TaskIds |-> [b[id] EXCEPT !.present = @ \cap Range(conns)]]

\* line 52: next() of the list iterator: the element at the iterator's
\* index in the list as it is now, or None when the index has reached the
\* length of the list
NextConnection(conns, b) == IF b.idx < Len(conns) THEN Some(conns[b.idx + 1]) ELSE None

\* lines 52-57: one turn of the loop: the next websocket of the list, await
\* send_json, and the websocket is remembered when the send raised
BroadcastSend(id) ==
  /\ task[id] \in BroadcastPcs
  /\ NextConnection(active_connections, bcast[id]) # None
  /\ LET conn == Val(NextConnection(active_connections, bcast[id]))
         ok == sock[conn] = "open"
     IN  /\ bcast' = [bcast EXCEPT ![id].idx = @ + 1,
                                   ![id].failed = IF ok THEN @ ELSE Append(@, conn),
                                   ![id].got = IF ok THEN Append(@, conn) ELSE @]
         /\ wire' = [wire EXCEPT ![id[2]] =
                       Append(@, [ev |-> "send", to |-> conn, type |-> Message(id).type, ok |-> ok])]
  /\ UNCHANGED <<active_connections, sock, question_states, transcript_history,
                 detected_questions, task, local, retLog, detectedBy, oldSession, addLog>>
  /\ UNCHANGED pipeVars

\* lines 52 and 59-61: the iterator is exhausted; the websockets whose send
\* raised are removed from the list
BroadcastFinish(id) ==
  /\ task[id] \in BroadcastPcs
  /\ NextConnection(active_connections, bcast[id]) = None
  /\ active_connections' = RemoveAll(active_connections, bcast[id].failed)
  /\ bcast' = Track([bcast EXCEPT ![id] = NoBroadcast], active_connections')
  /\ wire' = [wire EXCEPT ![id[2]] =
                Append(@, [ev |-> "end", to |-> 0, type |-> Message(id).type, ok |-> TRUE])]

\* ---- websocket_endpoint, lines 105-126

\* lines 108 and 42-44: accept, then append
Connect(c) ==
  /\ sock[c] = "new"
  /\ sock' = [sock EXCEPT ![c] = "open"]
  /\ active_connections' = Append(active_connections, c)
  /\ UNCHANGED <<question_states, transcript_history, detected_questions, task, bcast,
                 local, wire, retLog, detectedBy, oldSession, addLog>>
  /\ UNCHANGED pipeVars

\* the peer goes away: from now on a send to the websocket raises and its
\* receive raises WebSocketDisconnect
ClientDrop(c) ==
  /\ sock[c] = "open"
  /\ sock' = [sock EXCEPT ![c] = "broken"]
  /\ UNCHANGED <<active_connections, question_states, transcript_history,
                 detected_questions, task, bcast, local, wire, retLog, detectedBy, oldSession, addLog>>
  /\ UNCHANGED pipeVars

\* lines 125-126 and 46-48: WebSocketDisconnect, manager.disconnect
Disconnect(c) ==
  /\ sock[c] = "broken"
  /\ sock' = [sock EXCEPT ![c] = "closed"]
  /\ active_connections' = RemoveAll(active_connections, <<c>>)
  /\ bcast' = Track(bcast, active_connections')
  /\ UNCHANGED <<question_states, transcript_history, detected_questions, task,
                 local, wire, retLog, detectedBy, oldSession, addLog>>
  /\ UNCHANGED pipeVars

\* ---- receive_transcript, lines 181-204

\* CreatesTask with a fault: create_task is called before the broadcast
CreatesTask_First(stage) == stage = "before_broadcast"

\* line 201: asyncio.create_task is called after the awaited broadcast
CreatesTask(stage) == stage = "after_broadcast"

\* lines 186-193: the request arrives and the broadcast of the transcript
\* begins
PostTranscript(t, inputs) ==
  /\ task[Recv(t)] = "none"
  /\ IF t = 1 THEN TRUE ELSE task[Recv(t - 1)] # "none"
  /\ \E inp \in inputs :
       local' = [local EXCEPT ![t] = [input |-> inp, ret |-> None]]
  /\ task' = [task EXCEPT ![Recv(t)] = "bcast",
                          ![Detect(t)] = IF CreatesTask("before_broadcast") THEN "created" ELSE @]
  /\ bcast' = [bcast EXCEPT ![Recv(t)] = BroadcastBegin(active_connections)]
  /\ oldSession' = IF task[Clear] = "none" THEN oldSession \cup {t} ELSE oldSession
  /\ UNCHANGED <<active_connections, sock, question_states, transcript_history,
                 detected_questions, wire, retLog, detectedBy, addLog>>
  /\ UNCHANGED pipeVars

\* lines 193-203: the broadcast has ended; create_task, return
RecvReturn(t) ==
  /\ task[Recv(t)] = "bcast"
  /\ BroadcastFinish(Recv(t))
  /\ task' = [task EXCEPT ![Recv(t)] = "returned",
                          ![Detect(t)] = IF CreatesTask("after_broadcast") THEN "created" ELSE @]
  /\ UNCHANGED <<sock, question_states, transcript_history, detected_questions,
                 local, retLog, detectedBy, oldSession, addLog>>
  /\ UNCHANGED pipeVars

\* ---- detect_question_async, lines 129-178, and detect_question

\* the entry add_transcript makes for transcript t
Entry(t) == [timestamp |-> t, text |-> local[t].input.text, speaker |-> local[t].input.speaker]

\* server.py lines 132-134 and question_detector.py line 75: the task
\* starts, and detect_question, in its thread, calls add_transcript
DetectStart(t) ==
  /\ task[Detect(t)] = "created"
  /\ transcript_history' = add_transcript(transcript_history, Entry(t))
  /\ addLog' = Append(addLog, Entry(t))
  /\ task' = [task EXCEPT ![Detect(t)] = "llm"]
  /\ UNCHANGED <<active_connections, sock, question_states, detected_questions, bcast,
                 local, wire, retLog, detectedBy, oldSession>>
  /\ UNCHANGED pipeVars

\* DetectAnswer as it would be with a lock around lines 164-165: the text
\* is looked up and inserted in one step that no other thread can interleave
\* with (the program has no such lock)
DetectAnswer_Atomic(t, answers) ==
  /\ task[Detect(t)] = "llm"
  /\ \E a \in answers :
       IF a # None /\ normalize_question(Val(a)) \notin detected_questions
       THEN /\ local' = [local EXCEPT ![t].ret = a]
            /\ detected_questions' = detected_questions \cup {normalize_question(Val(a))}
            /\ retLog' = Append(retLog, normalize_question(Val(a)))
            /\ detectedBy' = detectedBy \cup {<<normalize_question(Val(a)), t>>}
            /\ task' = [task EXCEPT ![Detect(t)] = "returned"]
       ELSE /\ local' = [local EXCEPT ![t].ret = None]
            /\ task' = [task EXCEPT ![Detect(t)] = "returned"]
            /\ UNCHANGED <<detected_questions, retLog, detectedBy>>
  /\ UNCHANGED <<active_connections, sock, question_states, transcript_history,
                 bcast, wire, oldSession, addLog>>
  /\ UNCHANGED pipeVars

\* question_detector.py lines 132-164: the model answers; a question text
\* is normalized and looked up in detected_questions (line 164)
DetectAnswer(t, answers) ==
  /\ task[Detect(t)] = "llm"
  /\ \E a \in answers :
       IF a # None /\ normalize_question(Val(a)) \notin detected_questions
       THEN /\ local' = [local EXCEPT ![t].ret = a]
            /\ task' = [task EXCEPT ![Detect(t)] = "add"]
       ELSE /\ local' = [local EXCEPT ![t].ret = None]
            /\ task' = [task EXCEPT ![Detect(t)] = "returned"]
  /\ UNCHANGED <<active_connections, sock, question_states, transcript_history,
                 detected_questions, bcast, wire, retLog, detectedBy, oldSession, addLog>>
  /\ UNCHANGED pipeVars

\* question_detector.py lines 165-179: the text is inserted and the
\* question is returned
DetectAdd(t) ==
  /\ task[Detect(t)] = "add"
  /\ detected_questions' = detected_questions \cup {normalize_question(Val(local[t].ret))}
  /\ retLog' = Append(retLog, normalize_question(Val(local[t].ret)))
  /\ detectedBy' = detectedBy \cup {<<normalize_question(Val(local[t].ret)), t>>}
  /\ task' = [task EXCEPT ![Detect(t)] = "returned"]
  /\ UNCHANGED <<active_connections, sock, question_states, transcript_history,
                 bcast, local, wire, oldSession, addLog>>
  /\ UNCHANGED pipeVars

\* server.py lines 161-162: the position after the question part
ObjectionNext(t) ==
  IF detect_objection(local[t].input.text) /\ local[t].input.speaker = "them"
  THEN "obj_thread" ELSE "done"

\* server.py lines 136-160: the thread has returned; a question is stored
\* in question_states and its broadcast begins
DetectResume(t) ==
  /\ task[Detect(t)] = "returned"
  /\ IF local[t].ret # None
     THEN /\ question_states' = question_states \cup {QuestionId(t, Val(local[t].ret))}
          /\ bcast' = [bcast EXCEPT ![Detect(t)] = BroadcastBegin(active_connections)]
          /\ task' = [task EXCEPT ![Detect(t)] = "qbcast"]
     ELSE /\ task' = [task EXCEPT ![Detect(t)] = ObjectionNext(t)]
          /\ UNCHANGED <<question_states, bcast>>
  /\ UNCHANGED <<active_connections, sock, transcript_history, detected_questions,
                 local, wire, retLog, detectedBy, oldSession, addLog>>
  /\ UNCHANGED pipeVars

\* server.py lines 148-163: the broadcast of the question has ended
DetectQuestionSent(t) ==
  /\ task[Detect(t)] = "qbcast"
  /\ BroadcastFinish(Detect(t))
  /\ task' = [task EXCEPT ![Detect(t)] = ObjectionNext(t)]
  /\ UNCHANGED <<sock, question_states, transcript_history, detected_questions,
                 local, retLog, detectedBy, oldSession, addLog>>
  /\ UNCHANGED pipeVars

\* server.py lines 163-167: handle_objection has returned from its thread
\* (it returns a dictionary on every path, lines 440-488) and the broadcast
\* of the objection begins
DetectObjection(t) ==
  /\ task[Detect(t)] = "obj_thread"
  /\ bcast' = [bcast EXCEPT ![Detect(t)] = BroadcastBegin(active_connections)]
  /\ task' = [task EXCEPT ![Detect(t)] = "obcast"]
  /\ UNCHANGED <<active_connections, sock, question_states, transcript_history,
                 detected_questions, local, wire, retLog, detectedBy, oldSession, addLog>>
  /\ UNCHANGED pipeVars

\* server.py lines 167-176: the broadcast of the objection has ended
DetectObjectionSent(t) ==
  /\ task[Detect(t)] = "obcast"
  /\ BroadcastFinish(Detect(t))
  /\ task' = [task EXCEPT ![Detect(t)] = "done"]
  /\ UNCHANGED <<sock, question_states, transcript_history, detected_questions,
                 local, retLog, detectedBy, oldSession, addLog>>
  /\ UNCHANGED pipeVars

\* ---- clear_session, lines 372-385

\* lines 375-380: the three collections are replaced by empty ones, and the
\* broadcast of session_cleared begins
ClearSession ==
  /\ task[Clear] = "none"
  /\ question_states' = {}
  /\ transcript_history' = <<>>
  /\ detected_questions' = {}
  /\ retLog' = <<>>
  /\ detectedBy' = {}
  /\ addLog' = <<>>
  /\ bcast' = [bcast EXCEPT ![Clear] = BroadcastBegin(active_connections)]
  /\ task' = [task EXCEPT ![Clear] = "cbcast"]
  /\ UNCHANGED <<active_connections, sock, local, wire, oldSession>>
  /\ UNCHANGED pipeVars

\* lines 380-385: the broadcast has ended; return
ClearReturn ==
  /\ task[Clear] = "cbcast"
  /\ BroadcastFinish(Clear)
  /\ task' = [task EXCEPT ![Clear] = "done"]
  /\ UNCHANGED <<sock, question_states, transcript_history, detected_questions,
                 local, retLog, detectedBy, oldSession, addLog>>
  /\ UNCHANGED pipeVars

\* ---- add_transcript called directly, one call after the other
AddTranscript ==
  /\ Len(addLog) < HistoryLimit + MaxAdds
  /\ \E sp \in {"me", "them"} :
       /\ sp = "them" =>
            Cardinality({k \in 1..Len(addLog) : addLog[k].speaker = "them"}) < MaxThem
       /\ LET entry == [timestamp |-> Len(addLog) + 1, text |-> <<"hello">>, speaker |-> sp]
          IN  /\ transcript_history' = add_transcript(transcript_history, entry)
              /\ addLog' = Append(addLog, entry)
  /\ UNCHANGED <<active_connections, sock, question_states, detected_questions, task,
                 bcast, local, wire, retLog, detectedBy, oldSession>>
  /\ UNCHANGED pipeVars

\* ------------------------------------------------------------------------
\* the web server after start-up: no websocket, no request, empty collections
ServerInit ==
  /\ active_connections = <<>>
  /\ sock = [c \in Clients |-> "new"]
  /\ question_states = {}
  /\ transcript_history = <<>>
  /\ detected_questions = {}
  /\ task = [id \in TaskIds |-> "none"]
  /\ bcast = [id \in TaskIds |-> NoBroadcast]
  /\ local = [t \in Transcripts |-> [input |-> [speaker |-> "them", text |-> <<>>], ret |-> None]]
  /\ wire = [t \in {0} \cup Transcripts |-> <<>>]
  /\ retLog = <<>>
  /\ detectedBy = {}
  /\ oldSession = {}
  /\ addLog = <<>>

Init ==
  /\ ServerInit
  /\ is_recording = TRUE
  /\ transcription_queue = <<>>
  /\ unfinished_tasks = 0
  /\ clock = StartClock
  /\ stream_pos = 0
  /\ cPc = "start"
  /\ speech_buffer = <<>>
  /\ is_speaking = FALSE
  /\ silence_start = None
  /\ speech_start_time = None
  /\ silence_duration = None
  /\ speech_duration = None
  /\ wPc = "loop"
  /\ audio_data = None
  /\ mPc = "join_capture"
  /\ vadLog = <<>>
  /\ timeLog = <<>>
  /\ closeLog = <<>>
  /\ lastVad = "none"
  /\ lastStep = "none"
  /\ putLog = <<>>
  /\ vad = None
  /\ vadEnv = "none"
  /\ getLog = <<>>
  /\ sinkLog = <<>>
  /\ result = "none"
  /\ engineLog = <<>>

\* what a read may take: the frame's duration, or a stall long enough for
\* the silence or the maximum-duration threshold
ClockSteps == {CHUNK_DURATION, SILENCE_DURATION, MAX_SPEECH_DURATION}
Jitter == {0, MaxJitter}
\* vad.is_speech returns (True, p), returns (False, p) or raises
VadOutcomes == {"speech", "silence", "error"}

SegNext ==
  \/ CaptureStart({"loaded"})
  \/ CaptureLoop
  \/ CaptureShortRead
  \/ CaptureFrame(ClockSteps, Jitter, VadOutcomes, MaxFrames)
  \/ CaptureTerminate

SegSpec == Init /\ [][SegNext]_vars

\* the pipeline: the three threads, with a coarse clock
PipeSteps == {CHUNK_DURATION, MAX_SPEECH_DURATION}
PipeVads == {"speech", "silence"}

Capture ==
  \/ CaptureStart({"loaded"})
  \/ CaptureLoop
  \/ CaptureShortRead
  \/ CaptureFrame(PipeSteps, {0}, PipeVads, MaxFrames)
  \/ CaptureTerminate

\* the engine in the pipeline: it raises, returns blanks, or returns a word
PipeOutputs == {EngineRaise, EngineResult(<<" ">>, None), EngineResult(<<"a">>, None)}

Worker ==
  \/ WorkerLoop
  \/ WorkerLoopEmpty
  \/ WorkerGet
  \/ WorkerGetTimeout
  \/ WorkerStage
  \/ WorkerTranscribe(PipeOutputs)
  \/ WorkerTaskDone

Main ==
  \/ MainCaptureJoined
  \/ KeyboardInterrupt
  \/ MainQueueJoin
  \/ MainPutSentinel
  \/ MainThreadJoin

Next == Capture \/ Worker \/ Main

Spec == Init /\ [][Next]_vars

\* the capture loop alone on a clock that advances one frame duration per
\* frame read, the detector never failing
ScenarioNext ==
  \/ CaptureStart({"loaded"})
  \/ CaptureLoop
  \/ CaptureShortRead
  \/ CaptureFrame({CHUNK_DURATION}, {0}, {"speech", "silence"}, ScenarioFrames)
  \/ CaptureTerminate

ScenarioSpec == Init /\ [][ScenarioNext]_vars

\* the capture loop alone, started in every environment of the detector
VadNext ==
  \/ CaptureStart(VadEnvs)
  \/ CaptureLoop
  \/ CaptureShortRead
  \/ CaptureFrame({CHUNK_DURATION}, {0}, VadOutcomes, MaxFrames)
  \/ CaptureTerminate

VadSpec == Init /\ [][VadNext]_vars

\* the texts and the sub-segment lists the engine returns
RawTexts == {<<>>, <<" ">>, <<"a">>, <<" ", "a", " ">>, <<"a", " ", "b">>}
ProbLists == UNION {[1..n -> 0..ProbScale] : n \in 0..MaxSubSegments}
EngineOutputs ==
  {EngineRaise} \cup
  {EngineResult(t, sg) : t \in RawTexts, sg \in {None} \cup {Some(l) : l \in ProbLists}}

\* the pipeline on a short stream, with every answer of the engine
EngineNext ==
  \/ CaptureStart({"loaded"})
  \/ CaptureLoop
  \/ CaptureShortRead
  \/ CaptureFrame(PipeSteps, {0}, PipeVads, EngineFrames)
  \/ CaptureTerminate
  \/ WorkerLoop
  \/ WorkerLoopEmpty
  \/ WorkerGet
  \/ WorkerGetTimeout
  \/ WorkerStage
  \/ WorkerTranscribe(EngineOutputs)
  \/ WorkerTaskDone
  \/ Main

EngineSpec == Init /\ [][EngineNext]_vars

\* the pipeline on a short stream with a worker thread that keeps running:
\* whenever the worker can take a step it eventually takes one (a get
\* returns an item or times out after 0.5 s, the engine call returns or
\* raises)
FairNext ==
  \/ CaptureStart({"loaded"})
  \/ CaptureLoop
  \/ CaptureShortRead
  \/ CaptureFrame(PipeSteps, {0}, PipeVads, EngineFrames)
  \/ CaptureTerminate
  \/ Worker
  \/ Main

FairSpec == Init /\ [][FairNext]_vars /\ WF_vars(Worker)

\* the web server with transcripts ts that are posted and whose questions
\* are detected; the session is cleared once
DetectionSteps(ts, inputs, answers) ==
  \/ \E t \in ts :
       \/ PostTranscript(t, inputs)
       \/ RecvReturn(t)
       \/ DetectStart(t)
       \/ DetectAnswer(t, answers)
       \/ DetectAdd(t)
       \/ DetectResume(t)
       \/ DetectQuestionSent(t)
  \/ ClearSession
  \/ ClearReturn

\* the same with websockets cs that connect, lose their peer and are
\* disconnected, the sends of the broadcasts to them, and the objection
\* handling of the transcripts that hold a trigger
ServerSteps(cs, ts, inputs, answers) ==
  \/ \E c \in cs : Connect(c) \/ ClientDrop(c) \/ Disconnect(c)
  \/ \E id \in TaskIds : BroadcastSend(id)
  \/ \E t \in ts : DetectObjection(t) \/ DetectObjectionSent(t)
  \/ DetectionSteps(ts, inputs, answers)

\* one websocket that comes and goes while transcripts that hold an
\* objection trigger, said by either side, are posted
ServerNext ==
  ServerSteps({1}, 1..ServerTranscripts,
              {inp \in TranscriptInputs : detect_objection(inp.text)}, {None, Some(<<"q">>)})

ServerSpec == Init /\ [][ServerNext]_vars

\* every websocket, one transcript that holds a question and an objection
BroadcastNext ==
  ServerSteps(Clients, {1}, {[speaker |-> "them", text |-> <<"that is", "too expensive">>]},
              {Some(<<"q">>)})

BroadcastSpec == Init /\ [][BroadcastNext]_vars

\* every transcript and every answer of the detection model, while no
\* websocket is connected (a broadcast then sends nothing) and no transcript
\* holds an objection trigger (lines 161-176 are then skipped)
DetectNext ==
  DetectionSteps(Transcripts, {[speaker |-> "them", text |-> <<"hello">>]}, DetectAnswers)

DetectSpec == Init /\ [][DetectNext]_vars

\* the question detector alone: add_transcript called again and again
HistNext == AddTranscript

HistSpec == Init /\ [][HistNext]_vars

\* ------------------------------------------------------------------------
\* Properties
\* ------------------------------------------------------------------------

\* the bytes of frames e..f of the capture stream, in stream order
FrameBytes(e, f) == [k \in 1..((f - e + 1) * chunk_size_bytes) |->
                        (e - 1) * chunk_size_bytes + k]

\* n times the value b
Repeat(b, n) == [i \in 1..n |-> b]

WorkerEnded == wPc \in {"done", "killed"}

\* C1 (graceful drain): when the worker loop has ended after a shutdown
\* request, every segment the capture loop put while is_recording was still
\* True has been dequeued by the worker and none of them is left in the queue.
C1_GracefulDrain ==
  (~is_recording /\ WorkerEnded) =>
    \A i \in 1..Len(putLog) :
      putLog[i].recording =>
        /\ \E j \in 1..Len(getLog) : getLog[j] = putLog[i].item
        /\ \A k \in 1..Len(transcription_queue) : transcription_queue[k] # putLog[i].item

C1_Witness ==
  /\ ~is_recording
  /\ wPc = "done"
  /\ Len(putLog) = 2
  /\ putLog[1].recording /\ putLog[2].recording
  /\ Len(getLog) >= 2

\* C2 (shutdown terminates): after is_recording was set to False the shutdown
\* never gets stuck: either main has finished the sequence or some thread can
\* still take a step.
C2_ShutdownTerminates ==
  ~is_recording => (mPc = "exit" \/ ENABLED Next)

\* C3 (no short segments): every segment put on the queue carries a
\* speech_duration that is the clock at the cutoff minus the clock at the
\* speech onset, and that is at least MIN_SPEECH_DURATION.
C3_NoShortSegments ==
  \A i \in 1..Len(putLog) :
    /\ putLog[i].onset # None
    /\ putLog[i].cutoff - Val(putLog[i].onset) >= MIN_SPEECH_DURATION
    /\ putLog[i].item[2] = putLog[i].cutoff - Val(putLog[i].onset)

C3_Witness ==
  /\ Len(putLog) >= 1
  /\ putLog[1].item[2] >= SILENCE_DURATION
  /\ putLog[1].item[2] < MAX_SPEECH_DURATION

\* C4 (below-minimum discard): on the fixed-rate clock, an episode of k
\* speech frames with k frame durations below MIN_SPEECH_DURATION, followed
\* by silence frames up to the cutoff, puts nothing on the queue and leaves
\* the segmenter Idle.
C4_BelowMinimumDiscard ==
  \A k \in 1..ScenarioFrames, m \in 1..ScenarioFrames :
    ( /\ k * CHUNK_DURATION < MIN_SPEECH_DURATION
      /\ vadLog = Repeat(TRUE, k) \o Repeat(FALSE, m)
      /\ closeLog # <<>> )
    => (putLog = <<>> /\ ~is_speaking /\ speech_buffer = <<>>)

FiveSpeech(m) == Repeat(TRUE, 5) \o Repeat(FALSE, m)

Idle ==
  /\ ~is_speaking
  /\ speech_buffer = <<>>
  /\ silence_start = None
  /\ speech_start_time = None

\* C5 as written: on the fixed-rate clock, after 5 speech frames and 7
\* silence frames exactly one segment has been put, it holds all 12 frames,
\* its speech_duration is about 0.48 s, and the segmenter is Idle.
C5_Original ==
  vadLog = FiveSpeech(7) =>
    /\ Len(putLog) = 1
    /\ putLog[1].item[1] = FrameBytes(1, 12)
    /\ putLog[1].item[2] > 5 * CHUNK_DURATION - CHUNK_DURATION
    /\ putLog[1].item[2] < 5 * CHUNK_DURATION + CHUNK_DURATION
    /\ Idle

\* C5 as amended: on the fixed-rate clock, after 5 speech frames and 7
\* silence frames nothing has been put yet (the silence timer, started at the
\* first silence frame, shows 6 frame durations = 0.576 s); the 8th silence
\* frame closes the episode: exactly one segment, holding all 13 frames, with
\* speech_duration 12 frame durations = 1.152 s, and the segmenter is Idle.
C5_Scenario ==
  /\ vadLog = FiveSpeech(7) =>
       /\ putLog = <<>>
       /\ is_speaking
       /\ Len(speech_buffer) = 12
       /\ silence_duration = Some(6 * CHUNK_DURATION)
  /\ vadLog = FiveSpeech(8) =>
       /\ Len(putLog) = 1
       /\ putLog[1].item[1] = FrameBytes(1, 13)
       /\ putLog[1].item[2] = 12 * CHUNK_DURATION
       /\ transcription_queue = <<putLog[1].item>>
       /\ Idle

C5_Witness == vadLog = FiveSpeech(8) /\ cPc = "loop"

\* the first speech frame of the episode that frame f belongs to: the first
\* speech frame after the last frame before f that ended an episode
EpisodeFirst(f) ==
  LET closed == {closeLog[j] : j \in 1..Len(closeLog)}
      prev == CHOOSE c \in {0} \cup {x \in closed : x < f} :
                \A x \in closed : x < f => x <= c
      speech == {j \in (prev + 1)..f : vadLog[j]}
  IN  IF speech = {} THEN f + 1
      ELSE CHOOSE j \in speech : \A x \in speech : j <= x

\* C6 (frame ordering): the bytes of every segment put are exactly the
\* frames of the stream from the first speech frame of its episode up to and
\* including the frame on which the cutoff fired, in stream order.
C6_FrameOrder ==
  \A i \in 1..Len(putLog) :
    putLog[i].item[1] = FrameBytes(EpisodeFirst(putLog[i].frame), putLog[i].frame)

C6_Witness ==
  \E i \in 1..Len(putLog) :
    /\ EpisodeFirst(putLog[i].frame) > 1
    /\ putLog[i].frame - EpisodeFirst(putLog[i].frame) >= 2

\* a step of the capture loop that processed one full frame
FrameStep == Len(vadLog') = Len(vadLog) + 1
\* speech_detected of the frame that step processed
FrameIsSpeech == vadLog'[Len(vadLog')]
\* the step ended an episode
Closes == is_speaking /\ ~is_speaking'
\* the step put a segment
Emits == Len(putLog') = Len(putLog) + 1

\* C7 (cutoff rule): an episode ends only on a silence frame received while
\* speaking; on such a frame it ends iff silenceElapsed >= SILENCE_DURATION
\* or speechElapsed >= MAX_SPEECH_DURATION; a segment is put iff the episode
\* ends with speechElapsed >= MIN_SPEECH_DURATION; no speech frame ends one.
C7_CutoffRule ==
  [][FrameStep =>
       /\ Closes => ~FrameIsSpeech
       /\ (is_speaking /\ ~FrameIsSpeech) =>
            (Closes <=> ( \/ Val(silence_duration') >= SILENCE_DURATION
                          \/ clock' - Val(speech_start_time) >= MAX_SPEECH_DURATION ))
       /\ Closes => (Emits <=> clock' - Val(speech_start_time) >= MIN_SPEECH_DURATION)
       /\ ~Closes => (putLog' = putLog /\ transcription_queue' = transcription_queue)
    ]_vars

C7_Witness ==
  /\ lastStep = "emit"
  /\ Val(silence_duration) >= SILENCE_DURATION
  /\ Val(speech_duration) < MAX_SPEECH_DURATION

\* C8 (no force-cut): a speech frame never puts a segment and never ends an
\* episode, whatever the time since the onset: the segmenter is Speaking
\* afterwards and the buffer has grown by the frame.
C8_NoForceCut ==
  [][(FrameStep /\ FrameIsSpeech) =>
       /\ putLog' = putLog
       /\ transcription_queue' = transcription_queue
       /\ closeLog' = closeLog
       /\ is_speaking'
       /\ silence_start' = None
       /\ speech_buffer' = Append(speech_buffer, ReadBytes(stream_pos, chunk_size_bytes))
    ]_vars

\* uninterrupted speech that has lasted longer than MAX_SPEECH_DURATION
C8_Witness ==
  /\ is_speaking
  /\ lastStep = "speech"
  /\ putLog = <<>>
  /\ Len(speech_buffer) >= 3
  /\ \A j \in 1..Len(vadLog) : j > Len(vadLog) - Len(speech_buffer) => vadLog[j]
  /\ clock - Val(speech_start_time) > MAX_SPEECH_DURATION

\* C9 (reset on cutoff): whenever the cutoff fires the segmenter is
\* afterwards Idle with an empty buffer and no timer set, and no byte of a
\* segment already put is in the buffer or in another segment.
C9_ResetOnCutoff ==
  [][FrameStep =>
       /\ ( /\ is_speaking
            /\ ~FrameIsSpeech
            /\ \/ Val(silence_duration') >= SILENCE_DURATION
               \/ clock' - Val(speech_start_time) >= MAX_SPEECH_DURATION )
          => ( /\ speech_buffer' = <<>>
               /\ ~is_speaking'
               /\ silence_start' = None
               /\ speech_start_time' = None )
       /\ \A i \in 1..Len(putLog') :
            LET seg == putLog'[i].item[1]
                bytes == {seg[k] : k \in 1..Len(seg)}
                buf == JoinBytes(speech_buffer')
            IN  /\ \A k \in 1..Len(buf) : buf[k] \notin bytes
                /\ \A j \in 1..Len(putLog') :
                     j # i => \A k \in 1..Len(putLog'[j].item[1]) :
                                 putLog'[j].item[1][k] \notin bytes
    ]_vars

\* a second episode under way after a first one was put
C9_Witness ==
  /\ Len(putLog) = 1
  /\ is_speaking
  /\ Len(speech_buffer) >= 1

\* the first frame of the run of silence frames that ends the log
SilenceRunStart(log) ==
  CHOOSE r \in 1..Len(log) :
    /\ \A j \in r..Len(log) : ~log[j]
    /\ r = 1 \/ log[r - 1]

\* C10 (speech in TrailingSilence): a speech frame received while the
\* silence timer runs keeps the segmenter speaking, appends the frame, clears
\* silence_start and keeps speech_start_time; the next silence frame starts
\* the timer anew (silence_duration is only what the clock advanced inside
\* that iteration); and an episode that ends before MAX_SPEECH_DURATION ends
\* on an uninterrupted run of silence that lasted SILENCE_DURATION.
C10_SpeechInTrailingSilence ==
  [][FrameStep =>
       /\ (is_speaking /\ silence_start # None /\ FrameIsSpeech) =>
            /\ is_speaking'
            /\ speech_buffer' = Append(speech_buffer, ReadBytes(stream_pos, chunk_size_bytes))
            /\ silence_start' = None
            /\ speech_start_time' = speech_start_time
            /\ putLog' = putLog
       /\ (is_speaking /\ silence_start = None /\ ~FrameIsSpeech) =>
            Val(silence_duration') <= MaxJitter
       /\ (Closes /\ clock' - Val(speech_start_time) < MAX_SPEECH_DURATION) =>
            clock' - timeLog'[SilenceRunStart(vadLog')] >= SILENCE_DURATION
    ]_vars

\* two pauses of one episode that together lasted SILENCE_DURATION, with
\* speech between them, and no cutoff
C10_Witness ==
  /\ is_speaking
  /\ lastStep = "pause"
  /\ \E j \in 1..Len(vadLog) :
       /\ j > Len(vadLog) - Len(speech_buffer)
       /\ ~vadLog[j]
       /\ j < SilenceRunStart(vadLog)
       /\ clock - timeLog[j] >= SILENCE_DURATION

\* C11 (silence in Idle): a silence frame received while no episode is in
\* progress changes nothing: the segmenter stays idle, the frame is not
\* buffered, no timer is set or changed, and nothing is put on the queue.
C11_SilenceInIdle ==
  [][(FrameStep /\ ~is_speaking /\ ~FrameIsSpeech) =>
       /\ ~is_speaking'
       /\ speech_buffer' = speech_buffer
       /\ silence_start' = silence_start
       /\ speech_start_time' = speech_start_time
       /\ silence_duration' = silence_duration
       /\ speech_duration' = speech_duration
       /\ transcription_queue' = transcription_queue
       /\ unfinished_tasks' = unfinished_tasks
       /\ putLog' = putLog
    ]_vars

\* a silence frame was received in Idle, before any speech and again after
\* an episode had ended
C11_Witness ==
  /\ lastStep = "idle"
  /\ Idle
  /\ Len(vadLog) >= 3
  /\ ~vadLog[1]
  /\ closeLog # <<>>

\* C12 (end of stream): when the capture loop has ended on a short read and
\* no shutdown was requested, the pipeline stops only after every segment the
\* capture loop had put has been dequeued by the worker and marked done.
C12_EndOfStreamDrains ==
  (lastStep = "short" /\ is_recording /\ mPc = "exit") =>
    /\ \A i \in 1..Len(putLog) : \E j \in 1..Len(getLog) : getLog[j] = putLog[i].item
    /\ unfinished_tasks = 0

\* C13 (frame size): every chunk that is classified was read whole
\* (chunk_size_bytes bytes), and so is every buffered chunk; a read that
\* returns fewer bytes is neither classified nor buffered nor queued and ends
\* the capture loop; after it the capture stream is never read again.
C13_FrameSize ==
  [][/\ FrameStep => stream_pos' - stream_pos = chunk_size_bytes
     /\ \A k \in 1..Len(speech_buffer') : Len(speech_buffer'[k]) = chunk_size_bytes
     /\ (cPc = "read" /\ cPc' # "read" /\ stream_pos' - stream_pos < chunk_size_bytes) =>
          /\ cPc' = "terminate"
          /\ vadLog' = vadLog
          /\ speech_buffer' = speech_buffer
          /\ transcription_queue' = transcription_queue
     /\ lastStep = "short" => (stream_pos' = stream_pos /\ vadLog' = vadLog)
    ]_vars

\* an episode was in progress when a read returned part of a frame; the loop
\* has ended and the bytes of the partial frame are in no buffered chunk
C13_Witness ==
  /\ lastStep = "short"
  /\ cPc = "done"
  /\ stream_pos = Len(vadLog) * chunk_size_bytes + 1
  /\ is_speaking
  /\ \A k \in 1..Len(speech_buffer) : \A x \in 1..Len(speech_buffer[k]) :
       speech_buffer[k][x] # stream_pos

\* the capture loop has been left, or its thread has been stopped
CaptureEnded == cPc \in {"terminate", "done", "killed"}
\* the bytes of the frames in buffer buf
BufferedBytes(buf) == UNION {{buf[k][x] : x \in 1..Len(buf[k])} : k \in 1..Len(buf)}
\* the bytes of queue item or put item it
ItemBytes(it) == IF it = None THEN {} ELSE {it[1][x] : x \in 1..Len(it[1])}

\* C14 (nothing is put after the loop): once the capture loop has ended, by
\* a short read or by the cancellation flag, no step adds a segment to the
\* queue (only the sentinel may be added) and the frames buffered for the
\* episode in progress stay where they are: none of their bytes is in any
\* segment that is or ever was on the queue.
C14_NoPutAfterLoop ==
  [][/\ CaptureEnded =>
          /\ putLog' = putLog
          /\ speech_buffer' = speech_buffer
          /\ \A k \in 1..Len(transcription_queue') :
               \/ transcription_queue'[k] = None
               \/ \E j \in 1..Len(transcription_queue) :
                    transcription_queue[j] = transcription_queue'[k]
     /\ CaptureEnded' =>
          /\ \A k \in 1..Len(transcription_queue') :
               ItemBytes(transcription_queue'[k]) \cap BufferedBytes(speech_buffer') = {}
          /\ \A k \in 1..Len(getLog') :
               ItemBytes(getLog'[k]) \cap BufferedBytes(speech_buffer') = {}
    ]_vars

\* the loop ended on the cancellation flag with an episode in progress,
\* after an earlier episode had been put; main has put the sentinel
C14_Witness ==
  /\ cPc = "done"
  /\ ~is_recording
  /\ lastStep # "short"
  /\ is_speaking
  /\ speech_buffer # <<>>
  /\ putLog # <<>>
  /\ mPc = "thread_join"

\* the puts the capture loop made after is_recording had been set to False
LatePuts(log) == {i \in 1..Len(log) : ~log[i].recording}

\* C15 (cancellation is observed on the next cycle): after is_recording has
\* been set to False the capture loop puts at most one further segment, and
\* when the shutdown is over (the worker has left its loop and main has
\* returned) a capture loop that had read frames has exited and has
\* terminated the capture process (lines 232-233 have run).
C15_CancellationObserved ==
  /\ Cardinality(LatePuts(putLog)) <= 1
  /\ (~is_recording /\ mPc = "exit" /\ wPc = "done" /\ vadLog # <<>>) => cPc = "done"

\* the part of C15 that is about the capture loop alone: with is_recording
\* False, the loop condition leads to process.terminate() and never to a
\* read, and at most one segment is put after the cancellation
C15_AtMostOneFrame ==
  [][/\ (~is_recording /\ cPc = "loop" /\ cPc' \notin {"loop", "killed"}) => cPc' = "terminate"
     /\ (~is_recording /\ FrameStep) => (cPc = "read" /\ cPc' = "loop")
     /\ Cardinality(LatePuts(putLog')) <= 1
    ]_vars

\* put i of the capture loop was made before transcription_queue.join()
\* returned
BeforeDrain(i) == putLog[i].main \in {"join_capture", "queue_join"}
\* the worker holds item it and has not yet called task_done for it
InFlight(it) == audio_data = it /\ wPc \in {"stage", "transcribe", "task_done"}

\* C16 (sentinel after drain): from the moment the drain wait has returned,
\* and so when main puts None, every segment put before that moment has been
\* dequeued, is not in the queue (none of them is behind or ahead of the
\* sentinel), is not being processed and has been marked done: what is still
\* unfinished is at most the sentinel and the segments put afterwards.
C16_SentinelAfterDrain ==
  (mPc \in {"put_sentinel", "thread_join"} \/ (mPc = "exit" /\ ~is_recording)) =>
    /\ \A i \in 1..Len(putLog) : BeforeDrain(i) =>
         /\ \E j \in 1..Len(getLog) : getLog[j] = putLog[i].item
         /\ \A k \in 1..Len(transcription_queue) : transcription_queue[k] # putLog[i].item
         /\ ~InFlight(putLog[i].item)
    /\ unfinished_tasks <= Cardinality({i \in 1..Len(putLog) : ~BeforeDrain(i)}) + 1

\* main has put the sentinel; one segment was put before the drain wait
\* returned and another after it, which is behind the sentinel
C16_Witness ==
  /\ mPc = "thread_join"
  /\ \E i, j \in 1..Len(putLog) : BeforeDrain(i) /\ putLog[j].main = "thread_join"
  /\ \E k \in 1..Len(transcription_queue) : transcription_queue[k] = None

\* the segments the worker got, in order (the sentinel left out)
IsSegment(it) == it # None
RealGets == SelectSeq(getLog, IsSegment)
\* which put of the capture loop made item it
PutIndex(it) == CHOOSE i \in 1..Len(putLog) : putLog[i].item = it

\* C17 (FIFO): the segments the worker has dequeued are, in order, the first
\* segments the capture loop put; the segments still queued are the following
\* puts in order; and the results delivered to the sink are in the order of
\* their puts (dropped segments are missing, no two results are swapped).
C17_Fifo ==
  /\ Len(RealGets) <= Len(putLog)
  /\ \A j \in 1..Len(RealGets) : RealGets[j] = putLog[j].item
  /\ LET queued == SelectSeq(transcription_queue, IsSegment) IN
       \A k \in 1..Len(queued) :
         /\ Len(RealGets) + k <= Len(putLog)
         /\ queued[k] = putLog[Len(RealGets) + k].item
  /\ \A a \in 1..Len(sinkLog) :
       /\ \E i \in 1..Len(putLog) : putLog[i].item = sinkLog[a].segment
       /\ \A b \in 1..Len(sinkLog) :
            a < b => PutIndex(sinkLog[a].segment) < PutIndex(sinkLog[b].segment)

\* two segments were put, dequeued and delivered
C17_Witness ==
  /\ Len(putLog) = 2
  /\ Len(RealGets) = 2
  /\ Len(sinkLog) = 2
  /\ sinkLog[1].segment = putLog[1].item
  /\ sinkLog[2].segment = putLog[2].item

\* C18 (push never blocks capture): in every state in which the capture loop
\* has asked for a frame, whatever the queue holds and wherever the worker
\* is, the iteration can be carried out on a full frame for every duration of
\* the read and every answer of the VAD, the ones that put a segment
\* included.
C18_PushNeverBlocks ==
  (cPc = "read" /\ Len(vadLog) < MaxFrames) =>
    \A d \in PipeSteps, v \in PipeVads :
      ENABLED CaptureFrameOn(chunk_size_bytes, d, v, 0, 0, MaxFrames)

\* a segment was put on a queue that already held one, after the worker had
\* left its loop
C18_Witness ==
  /\ lastStep = "emit"
  /\ cPc = "loop"
  /\ wPc = "done"
  /\ Len(transcription_queue) >= 2
  /\ transcription_queue[Len(transcription_queue)] = putLog[Len(putLog)].item
  /\ putLog[Len(putLog)].main = "thread_join"

\* the worker took a step from position pc
WorkerStepFrom(pc) == wPc = pc /\ wPc' \notin {pc, "killed"}

\* C19 (engine failure): when the transcription call raises, nothing is
\* delivered to the sink for that segment, the worker goes on to task_done,
\* which marks the segment done, and from there back to its loop: it does not
\* end.
C19_EngineFailure ==
  [][/\ (WorkerStepFrom("transcribe") /\ result' = "raise") =>
          /\ sinkLog' = sinkLog
          /\ wPc' = "task_done"
          /\ audio_data' = audio_data
     /\ (WorkerStepFrom("task_done") /\ result = "raise") =>
          /\ unfinished_tasks' = unfinished_tasks - 1
          /\ sinkLog' = sinkLog
          /\ wPc' = "loop"
    ]_vars

\* the engine call raised on the first segment; nothing was delivered, the
\* segment was marked done, and the worker has dequeued the second segment
C19_Witness ==
  /\ result = "raise"
  /\ sinkLog = <<>>
  /\ Len(putLog) = 2
  /\ Len(RealGets) = 2
  /\ audio_data = putLog[2].item
  /\ wPc = "transcribe"
  /\ unfinished_tasks = 1

\* C20 (VAD fallback): in every environment get_vad returns a detector and
\* no exception leaves it, so capture_audio goes on past line 145 with a
\* detector; when torch does not import or building the Silero detector
\* raises, the detector is an EnergyVAD; and no frame is classified without
\* a detector.
C20_VadFallback ==
  /\ cPc # "start" =>
       /\ vad # None
       /\ Val(vad) \in {"SileroVAD", "EnergyVAD"}
       /\ vadEnv \in {"load_raised", "no_torch"} => Val(vad) = "EnergyVAD"
  /\ vadLog # <<>> => vad # None

\* building the Silero detector raised, and the capture loop classifies
\* frames with the EnergyVAD
C20_Witness ==
  /\ vadEnv = "load_raised"
  /\ vad = Some("EnergyVAD")
  /\ vadLog # <<>>
  /\ cPc = "read"

\* C21 (classification failure): a frame on which vad.is_speech raised is
\* handled as a silence frame and the loop goes on to its condition: in Idle
\* nothing changes; while speaking the frame is appended to the buffer and
\* the silence timer starts (at the time the frame was read) or keeps
\* running, unless the cutoff fires, and then the episode ends as on any
\* silence frame and a segment that is put ends with this frame.
C21_ClassificationFailure ==
  [][(FrameStep /\ lastVad' = "error") =>
       LET chunk == ReadBytes(stream_pos, chunk_size_bytes)
           t0 == timeLog'[Len(timeLog')]
           item == putLog'[Len(putLog')].item[1]
       IN
       /\ ~FrameIsSpeech
       /\ cPc' = "loop"
       /\ ~is_speaking =>
            /\ UNCHANGED <<speech_buffer, is_speaking, silence_start, speech_start_time,
                           transcription_queue, putLog>>
       /\ (is_speaking /\ ~Closes) =>
            /\ speech_buffer' = Append(speech_buffer, chunk)
            /\ silence_start' = IF silence_start = None THEN Some(t0) ELSE silence_start
            /\ speech_start_time' = speech_start_time
            /\ putLog' = putLog
            /\ ~CutoffFires(Val(silence_duration'), Val(speech_duration'))
       /\ (is_speaking /\ Closes) =>
            /\ CutoffFires(Val(silence_duration'), Val(speech_duration'))
            /\ speech_buffer' = <<>>
            /\ silence_start' = None
            /\ Emits => SubSeq(item, Len(item) - chunk_size_bytes + 1, Len(item)) = chunk
    ]_vars

\* during the pause of an episode the detector failed on a frame; that frame
\* fired the cutoff and is the last frame of the segment that was put
C21_Witness ==
  /\ lastVad = "error"
  /\ lastStep = "emit"
  /\ Len(vadLog) >= 3
  /\ ~vadLog[Len(vadLog) - 1]
  /\ cPc = "loop"
  /\ putLog[Len(putLog)].item[1] = FrameBytes(EpisodeFirst(Len(vadLog)), Len(vadLog))

\* C22 (startup failure): when the capture process could not be started the
\* capture function has ended, no byte was read, no frame classified,
\* nothing buffered, no segment was ever put, the queue holds no segment,
\* and main is not stuck: it has returned or can take its next step.
C22_StartupFailure ==
  lastStep = "start_failed" =>
    /\ cPc = "done"
    /\ stream_pos = 0
    /\ vadLog = <<>>
    /\ speech_buffer = <<>>
    /\ putLog = <<>>
    /\ \A k \in 1..Len(transcription_queue) : transcription_queue[k] = None
    /\ getLog \in {<<>>, <<None>>}
    /\ sinkLog = <<>>
    /\ mPc = "exit" \/ ENABLED Main

\* the capture process could not be started and main has returned with no
\* shutdown request
C22_Witness ==
  /\ lastStep = "start_failed"
  /\ mPc = "exit"
  /\ is_recording

\* text t is empty once the whitespace at its ends is removed: it holds
\* nothing but whitespace
AllSpace(t) == \A i \in 1..Len(t) : t[i] \in Whitespace
\* the segments for which something was delivered to the sink
Delivered == {sinkLog[k].segment : k \in 1..Len(sinkLog)}

\* C23 (no empty transcripts): every result delivered to the sink has a text
\* that is not empty, and comes from an engine text that was not empty after
\* trimming; for the segment whose recognized text was empty after trimming
\* nothing is delivered.
C23_NoEmptyTranscripts ==
  /\ \A k \in 1..Len(sinkLog) :
       /\ sinkLog[k].data.text # <<>>
       /\ ~AllSpace(sinkLog[k].raw.text)
       /\ ~sinkLog[k].raw.raised
  /\ (wPc = "task_done" /\ result = "empty") => audio_data \notin Delivered

\* the engine returned a text that is empty after trimming for the segment
\* the worker holds; nothing was delivered
C23_Witness ==
  /\ wPc = "task_done"
  /\ result = "empty"
  /\ audio_data = putLog[1].item
  /\ sinkLog = <<>>

\* C24 (at most once, best effort): no segment has two delivery attempts; a
\* step of the worker out of the transcription makes at most one attempt,
\* and when that attempt failed the worker still goes on to task_done; the
\* task_done step marks the segment done, makes no further attempt and
\* returns the worker to its loop.
C24_AtMostOnce ==
  [][/\ \A a, b \in 1..Len(sinkLog') :
          a # b => sinkLog'[a].segment # sinkLog'[b].segment
     /\ WorkerStepFrom("transcribe") =>
          /\ Len(sinkLog') <= Len(sinkLog) + 1
          /\ (Len(sinkLog') > Len(sinkLog) /\ ~sinkLog'[Len(sinkLog')].posted) =>
               /\ sinkLog'[Len(sinkLog')].segment = audio_data
               /\ wPc' = "task_done"
               /\ audio_data' = audio_data
     /\ WorkerStepFrom("task_done") =>
          /\ sinkLog' = sinkLog
          /\ unfinished_tasks' = unfinished_tasks - 1
          /\ wPc' = "loop"
    ]_vars

\* the delivery for the first segment failed; the segment was marked done
\* and the result of the second segment was delivered
C24_Witness ==
  /\ Len(sinkLog) = 2
  /\ sinkLog[1].segment = putLog[1].item
  /\ ~sinkLog[1].posted
  /\ sinkLog[2].segment = putLog[2].item
  /\ sinkLog[2].posted
  /\ unfinished_tasks = 0

\* C25 (confidence): for every delivered result, when the engine returned
\* n >= 1 sub-segments the confidence is the fraction equal to 1 minus the
\* mean of their no_speech_prob, and it lies between 0 and 1; when the
\* engine returned no sub-segment or no "segments" key it is None.
C25_Confidence ==
  \A k \in 1..Len(sinkLog) :
    LET sg == sinkLog[k].raw.segments
        c == sinkLog[k].data.confidence
    IN  IF sg # None /\ Len(Val(sg)) >= 1
        THEN LET n == Len(Val(sg))
                 total == SumSeq(Val(sg))      \* in units of 1/ProbScale
             IN  /\ c # None
                 /\ Val(c)[2] > 0
                 \* c = 1 - (total / ProbScale) / n
                 /\ Val(c)[1] * n * ProbScale = Val(c)[2] * (n * ProbScale - total)
                 /\ 0 <= Val(c)[1] /\ Val(c)[1] <= Val(c)[2]
        ELSE c = None

\* a result was delivered for which the engine returned two sub-segments
\* with no_speech_prob 1/ProbScale and 1
C25_Witness ==
  \E k \in 1..Len(sinkLog) :
    /\ sinkLog[k].raw.segments = Some(<<1, ProbScale>>)
    /\ sinkLog[k].data.confidence = Some(<<ProbScale - 1, 2 * ProbScale>>)

\* C26 (fields of a result): the body of every post the worker makes to the
\* sink has the fields text, timestamp, confidence and source.
C26_FourFields ==
  \A k \in 1..Len(sinkLog) :
    {"text", "timestamp", "confidence", "source"} \subseteq DOMAIN sinkLog[k].data

\* the engine calls that have started and not yet returned or raised
CallsInFlight ==
  Cardinality({i \in 1..Len(engineLog) : engineLog[i].ev = "call"})
  - Cardinality({i \in 1..Len(engineLog) : engineLog[i].ev = "return"})

\* C27 (one transcription at a time): the starts and ends of engine calls
\* alternate, each end belonging to the call started just before it, so a
\* call for a segment starts only when every earlier call has returned or
\* raised, and at most one call is in flight.
C27_OneInFlight ==
  /\ \A i \in 1..Len(engineLog) :
       IF i % 2 = 1
       THEN engineLog[i].ev = "call"
       ELSE /\ engineLog[i].ev = "return"
            /\ engineLog[i].segment = engineLog[i - 1].segment
  /\ CallsInFlight \in {0, 1}
  /\ CallsInFlight = 1 =>
       /\ wPc \in {"transcribe", "killed"}
       /\ audio_data = engineLog[Len(engineLog)].segment

\* the call for the second segment is in flight; the call for the first has
\* ended
C27_Witness ==
  /\ Len(engineLog) = 3
  /\ engineLog[1].segment = putLog[1].item
  /\ engineLog[3].segment = putLog[2].item
  /\ wPc = "transcribe"

\* the bytes the worker owns: those of the segment it got and has not yet
\* marked done
WorkerBytes == IF InFlight(audio_data) THEN ItemBytes(audio_data) ELSE {}
QueueBytes(k) == ItemBytes(transcription_queue[k])

\* C28 (single ownership): the bytes of the segmenter's buffer, of each
\* queued segment and of the segment the worker is processing are pairwise
\* disjoint; a segment enters the queue only by an emitting step of the
\* capture loop, which hands over the whole buffer and empties it; and the
\* segments put so far never change and share no byte.
C28_SingleOwnership ==
  [][/\ BufferedBytes(speech_buffer') \cap WorkerBytes' = {}
     /\ \A k \in 1..Len(transcription_queue') :
          /\ BufferedBytes(speech_buffer') \cap QueueBytes(k)' = {}
          /\ WorkerBytes' \cap QueueBytes(k)' = {}
          /\ \A j \in 1..Len(transcription_queue') :
               j # k => QueueBytes(j)' \cap QueueBytes(k)' = {}
     /\ \A k \in 1..Len(transcription_queue') :
          (/\ transcription_queue'[k] # None
           /\ \A j \in 1..Len(transcription_queue) :
                transcription_queue[j] # transcription_queue'[k]) =>
            /\ Emits
            /\ k = Len(transcription_queue')
            /\ transcription_queue'[k] = putLog'[Len(putLog')].item
            /\ ItemBytes(transcription_queue'[k]) =
                 BufferedBytes(speech_buffer) \cup
                 {stream_pos + x : x \in 1..chunk_size_bytes}
            /\ speech_buffer' = <<>>
     /\ SubSeq(putLog', 1, Len(putLog)) = putLog
     /\ \A a, b \in 1..Len(putLog') :
          a # b => ItemBytes(putLog'[a].item) \cap ItemBytes(putLog'[b].item) = {}
    ]_vars

\* the worker is processing the first segment while the segmenter buffers
\* the frames of the next episode
C28_Witness ==
  /\ Len(putLog) = 1
  /\ InFlight(putLog[1].item)
  /\ is_speaking
  /\ speech_buffer # <<>>
  /\ WorkerBytes # {}

\* C29 (idle worker and shutdown): a get on an empty queue times out, takes
\* nothing and sends the worker back to its loop condition; a worker that
\* gets the sentinel ends without staging, transcribing or delivering
\* anything and without task_done; and a worker that is between items when
\* is_recording is False and the queue is empty ends its loop, with no
\* sentinel needed, unless a segment is put first or the process exits.
C29_IdleWorkerStops ==
  /\ [][/\ (WorkerStepFrom("get") /\ transcription_queue = <<>>) =>
             /\ wPc' = "loop"
             /\ UNCHANGED <<transcription_queue, unfinished_tasks, audio_data, getLog,
                            sinkLog, engineLog>>
        /\ (WorkerStepFrom("get") /\ transcription_queue # <<>>
              /\ Head(transcription_queue) = None) =>
             /\ wPc' = "done"
             /\ UNCHANGED <<unfinished_tasks, sinkLog, engineLog>>
       ]_vars
  /\ (~is_recording /\ transcription_queue = <<>> /\ wPc \in {"loop", "loop_empty", "get"})
       ~> (wPc = "done" \/ transcription_queue # <<>> \/ mPc = "exit")

\* the worker has left its loop after the shutdown request though no
\* sentinel was ever put
C29_Witness ==
  /\ wPc = "done"
  /\ ~is_recording
  /\ mPc = "queue_join"
  /\ \A k \in 1..Len(getLog) : getLog[k] # None
  /\ transcription_queue = <<>>

\* C30 (task_done exactly once): whenever the worker is between items, every
\* segment it has taken so far has been marked done exactly once, so the
\* queue's outstanding count equals the number of items still queued.
C30_TaskDoneOnce ==
  wPc \in {"loop", "loop_empty", "get"} => unfinished_tasks = Len(transcription_queue)

\* C31 (no stranded segment): when the worker loop has ended by itself, no
\* segment is left in the queue; a segment the capture loop puts during its
\* last iteration, after is_recording was set to False, is dequeued too.
C31_NoStrandedSegment ==
  wPc = "done" => \A k \in 1..Len(transcription_queue) : transcription_queue[k] = None

\* C32 (no discard with the default settings): at every evaluation of the
\* cutoff the time since the speech onset is at least the time since the
\* silence onset, and neither is negative; so with SILENCE_DURATION and
\* MAX_SPEECH_DURATION both at least MIN_SPEECH_DURATION every cutoff puts a
\* segment and no episode is discarded.
C32_NoDiscard ==
  [][FrameStep =>
       /\ (is_speaking /\ ~FrameIsSpeech) =>
            /\ Val(silence_duration') >= 0
            /\ Val(speech_duration') >= Val(silence_duration')
       /\ (SILENCE_DURATION >= MIN_SPEECH_DURATION /\ MAX_SPEECH_DURATION >= MIN_SPEECH_DURATION) =>
            /\ Closes => Emits
            /\ lastStep' # "discard"
            /\ Len(closeLog') = Len(putLog')
    ]_vars

\* a single speech frame (one frame duration of speech, less than
\* MIN_SPEECH_DURATION) followed by a silence frame on which the silence
\* timer fires: the episode is put
C32_Witness ==
  /\ vadLog = <<TRUE, FALSE, FALSE>>
  /\ lastStep = "emit"
  /\ Len(putLog) = 1
  /\ Val(silence_duration) >= SILENCE_DURATION
  /\ Val(speech_duration) < MAX_SPEECH_DURATION
  /\ timeLog[2] - timeLog[1] < MIN_SPEECH_DURATION

\* C33 (cutoff on the first silence frame): the silence frame that follows a
\* speech frame starts the silence timer and evaluates the cutoff in the same
\* iteration.  The silence measured there is only what the clock advanced
\* between two consecutive readings (zero on a clock that stands still
\* inside an iteration), so the silence threshold cannot fire; if the time
\* since the onset has reached MAX_SPEECH_DURATION the episode ends at once:
\* the segment put is the buffered frames plus this one silence frame, and
\* the segmenter is idle.  Otherwise the episode goes on with the timer set.
C33_CutoffOnFirstSilence ==
  [][(FrameStep /\ is_speaking /\ silence_start = None /\ ~FrameIsSpeech) =>
       /\ vadLog[Len(vadLog)]
       /\ Val(silence_duration') >= 0
       /\ Val(silence_duration') <= MaxJitter
       /\ Val(silence_duration') <= clock' - timeLog'[Len(timeLog')]
       /\ Val(silence_duration') < SILENCE_DURATION
       /\ clock' - Val(speech_start_time) >= MAX_SPEECH_DURATION =>
            /\ Closes
            /\ Emits
            /\ putLog'[Len(putLog')].item[1] =
                 JoinBytes(speech_buffer) \o ReadBytes(stream_pos, chunk_size_bytes)
            /\ putLog'[Len(putLog')].item[2] = clock' - Val(speech_start_time)
            /\ transcription_queue' = Append(transcription_queue, putLog'[Len(putLog')].item)
            /\ speech_buffer' = <<>>
            /\ silence_start' = None
            /\ speech_start_time' = None
       /\ clock' - Val(speech_start_time) < MAX_SPEECH_DURATION =>
            /\ ~Closes
            /\ putLog' = putLog
            /\ silence_start' = Some(timeLog'[Len(timeLog')])
    ]_vars

\* speech that lasted MAX_SPEECH_DURATION without a pause has been put on the
\* first silence frame after it, with no silence waited for
C33_Witness ==
  /\ Len(vadLog) >= 3
  /\ \A j \in 1..(Len(vadLog) - 1) : vadLog[j]
  /\ ~vadLog[Len(vadLog)]
  /\ lastStep = "emit"
  /\ Len(putLog) = 1
  /\ putLog[1].item[1] = FrameBytes(1, Len(vadLog))
  /\ Val(speech_duration) >= MAX_SPEECH_DURATION
  /\ Val(silence_duration) = 0

\* C34 (segmenter state invariant): between two iterations of the capture
\* loop, is_speaking is False exactly when speech_buffer is empty and exactly
\* when speech_start_time is unset; silence_start is set only while
\* is_speaking is True, and while speaking it is set exactly when the frame
\* buffered last (the frame processed last) was a silence frame.
C34_SegmenterState ==
  /\ ~is_speaking <=> speech_buffer = <<>>
  /\ ~is_speaking <=> speech_start_time = None
  /\ silence_start # None => is_speaking
  /\ is_speaking =>
       /\ vadLog # <<>>
       /\ silence_start # None <=> ~vadLog[Len(vadLog)]
       /\ speech_buffer[Len(speech_buffer)] =
            [i \in 1..chunk_size_bytes |-> (Len(vadLog) - 1) * chunk_size_bytes + i]

\* after an episode was closed the segmenter is speaking again, with one
\* speech frame and one silence frame buffered and the silence timer running
C34_Witness ==
  /\ closeLog # <<>>
  /\ is_speaking
  /\ silence_start # None
  /\ Len(speech_buffer) = 2
  /\ cPc = "loop"

\* the frame of the capture stream that byte b belongs to
FrameOf(b) == ((b - 1) \div chunk_size_bytes) + 1
\* the first and the last frame of segment seg
FirstFrame(seg) == FrameOf(seg[1])
LastFrame(seg) == FrameOf(seg[Len(seg)])

\* C35 (shape of a segment): every segment put starts with a frame
\* classified as speech and ends with a frame classified as non-speech, the
\* frame on which the cutoff fired; it has at least two frames; it holds
\* every frame of the stream between the two, speech or silence, whole and
\* in order; and the frame before its first frame, if any, was not part of
\* the episode (it was not speech, or it closed the episode before).
C35_SegmentShape ==
  \A i \in 1..Len(putLog) :
    LET seg == putLog[i].item[1]
        e == FirstFrame(seg)
        l == LastFrame(seg)
    IN  /\ Len(seg) >= 2 * chunk_size_bytes
        /\ e < l
        /\ vadLog[e]
        /\ ~vadLog[l]
        /\ l = putLog[i].frame
        /\ seg = FrameBytes(e, l)
        /\ e > 1 => ~vadLog[e - 1]
        /\ \A j \in (e + 1)..l :
             ~vadLog[j] => \A k \in 1..chunk_size_bytes :
                             seg[(j - e) * chunk_size_bytes + k] = (j - 1) * chunk_size_bytes + k

\* a segment with a pause inside the episode: speech, silence, speech, and
\* the silence frame on which the cutoff fired
C35_Witness ==
  /\ vadLog = <<TRUE, FALSE, TRUE, FALSE>>
  /\ Len(putLog) = 1
  /\ putLog[1].item[1] = FrameBytes(1, 4)

\* the events of type ty in the log of transcript t: their positions
Events(t, ty) == {k \in 1..Len(wire[t]) : wire[t][k].type = ty}
\* the position at which the broadcast of type ty for transcript t ended
Ended(t, ty) == {k \in Events(t, ty) : wire[t][k].ev = "end"}

\* C36 (transcript before question): the background detection task of a
\* transcript exists only when the broadcast of the transcript has ended,
\* and every send of a question or an objection made for a transcript comes
\* after the end of the broadcast of that transcript, hence after every send
\* of the transcript itself.
C36_TranscriptFirst ==
  \A t \in Transcripts :
    /\ task[Detect(t)] # "none" => Ended(t, "transcript") # {}
    /\ \A k \in Events(t, "question") \cup Events(t, "objection") :
         /\ \E e \in Ended(t, "transcript") : e < k
         /\ \A j \in Events(t, "transcript") : j < k

\* a websocket received the transcript, then the question found in it, then
\* the objection found in it
C36_Witness ==
  /\ Len(wire[1]) = 6
  /\ wire[1][1] = [ev |-> "send", to |-> 1, type |-> "transcript", ok |-> TRUE]
  /\ wire[1][3] = [ev |-> "send", to |-> 1, type |-> "question", ok |-> TRUE]
  /\ wire[1][5] = [ev |-> "send", to |-> 1, type |-> "objection", ok |-> TRUE]

\* C37 (question de-duplication): between two clears detect_question returns
\* at most one question for a given normalized text, also when detections
\* run in several threads at once.
C37_NoDuplicateQuestion ==
  \A i \in 1..Len(retLog), j \in 1..Len(retLog) : i # j => retLog[i] # retLog[j]

\* C38 (clear is complete): when POST /clear has returned, every line of
\* transcript_history, every question of question_states and every text of
\* detected_questions comes from a transcript received after the clear.
C38_ClearComplete ==
  task[Clear] = "done" =>
    /\ \A k \in 1..Len(transcript_history) : transcript_history[k].timestamp \notin oldSession
    /\ \A id \in question_states : id[1] \notin oldSession
    /\ \A p \in detectedBy : p[1] \in detected_questions => p[2] \notin oldSession

\* the step ends the broadcast task id is in
EndsBroadcast(id) == task[id] \in BroadcastPcs /\ task'[id] # task[id]
\* how often websocket c occurs in list seq
Count(seq, c) == Cardinality({k \in 1..Len(seq) : seq[k] = c})

\* C39 (a broadcast reaches every client): when a broadcast ends, every
\* websocket that was registered from its beginning to its end has been sent
\* the message exactly once, no websocket has been sent it twice, every
\* websocket whose send failed is no longer registered, and every websocket
\* whose send succeeded and that did not leave by itself is still
\* registered.
C39_BroadcastReachesAll ==
  [][\A id \in TaskIds :
       EndsBroadcast(id) =>
         /\ \A c \in bcast[id].present : Count(bcast[id].got \o bcast[id].failed, c) = 1
         /\ \A c \in Clients : Count(bcast[id].got \o bcast[id].failed, c) <= 1
         /\ \A c \in Range(bcast[id].failed) : c \notin Range(active_connections')
         /\ \A c \in Range(bcast[id].got) \cap bcast[id].present : c \in Range(active_connections')
    ]_vars

\* the last n entries of list seq, as Python's seq[-n:] gives them
Latest(seq, n) ==
  IF Len(seq) <= n THEN seq ELSE SubSeq(seq, Len(seq) - n + 1, Len(seq))

\* C40 (transcript_history is bounded and recent): after any sequence of
\* add_transcript calls transcript_history holds at most 20 entries, and they
\* are the most recently added entries, in the order they were added.
C40_HistoryBounded ==
  /\ Len(transcript_history) <= HistoryLimit
  /\ transcript_history = Latest(addLog, HistoryLimit)

\* more than 20 calls were made, the last of them for the second speaker, and
\* the history has dropped the first entries
C40_Witness ==
  /\ Len(addLog) = HistoryLimit + MaxAdds
  /\ Len(transcript_history) = HistoryLimit
  /\ transcript_history[1].timestamp = MaxAdds + 1
  /\ transcript_history[HistoryLimit].speaker = "them"

====
